---------------------------- MODULE Spec2Model ----------------------------
(***************************************************************************)
(* Smart-fridge inventory: receipt ingestion (scanner.py), the recipe      *)
(* session server (api_server.py) and the consumption loop it shares with  *)
(* the command-line chef (chef_agent.py).                                  *)
(*                                                                         *)
(* Conventions.                                                            *)
(*  - An item name is a sequence of letters; a letter is written by its    *)
(*    name ("tav", "pe", ...).  Letters compares letters as Python         *)
(*    compares code points.                                                *)
(*  - A quantity is an integer number of ten-thousandths: Unit is 1.0,     *)
(*    so 10004 is 1.0004.  round(x, 3) is Round3.                          *)
(*  - A date is a day number; comparing ISO date strings is comparing      *)
(*    day numbers.                                                         *)
(*  - A row id is the row's index in db: rows are never deleted.           *)
(***************************************************************************)
EXTENDS Integers, Sequences, FiniteSets, Bags, TLC

VARIABLES
    creds,        \* SUPABASE_URL and SUPABASE_KEY are set in the server's environment
    db,           \* table fridge_items
    shoppingList, \* table smart_shopping_list, a bag of entries
    sessions,     \* api_server._sessions: user id -> session object
    heap,         \* session objects (Python dicts), by identity
    chats,        \* the generative chats: what was sent on each
    opened,       \* number of chats opened so far
    req,          \* the request each server thread is handling, and where it is
    response,     \* the HTTP status of the last response the server sent, 0 before any
    cli,          \* the run of chef_agent.run_chef_agent, and where it is
    scan,         \* the last run of scanner.save_to_db: its receipt and its lists
    recognition,  \* the run of scanner.analyze_receipt, and where it is
    probe         \* the last call of scanner.find_best_match made by itself

vars == <<creds, db, shoppingList, sessions, heap, chats, opened, req, response, cli, scan,
          recognition, probe>>

\* Python's None is the empty sequence <<>>, and a value x that may be None is <<x>>
None == <<>>

----------------------------------------------------------------------------
(* Bounds of the model.                                                    *)

\* rows the store can hold
MaxRows == 3
\* generate requests that open a chat
MaxChats == 2
\* revision prompts sent on one chat, when requests run concurrently
MaxRevShort == 1

(* Program constants.                                                      *)
MAX_REVISIONS == 5

\* 1.0 in ten-thousandths
Unit == 10000
\* round(x, 3) keeps multiples of Milli
Milli == 10

\* cutoff=0.70 of the consumption match and threshold=0.80 of ingestion, in percent
ConsumeCutoff == 70
IngestThreshold == 80

----------------------------------------------------------------------------
(* Sequences.                                                              *)

Range(s) == {s[i] : i \in DOMAIN s}

Max(a, b) == IF a >= b THEN a ELSE b

Min(a, b) == IF a <= b THEN a ELSE b

\* is sub a contiguous part of s (Python: sub in s)
Contains(s, sub) ==
    \E i \in 0..(Len(s) - Len(sub)) :
        \A k \in 1..Len(sub) : s[i + k] = sub[k]

\* str.lower() and str.strip() on the characters used
Lower(s) == [i \in DOMAIN s |-> IF s[i] = "Y" THEN "y" ELSE s[i]]

RECURSIVE LStrip(_)
LStrip(s) == IF s # <<>> /\ s[1] = " " THEN LStrip(Tail(s)) ELSE s

RECURSIVE RStrip(_)
RStrip(s) ==
    IF s # <<>> /\ s[Len(s)] = " " THEN RStrip(SubSeq(s, 1, Len(s) - 1)) ELSE s

Strip(s) == RStrip(LStrip(s))

----------------------------------------------------------------------------
(* Letters and names.                                                      *)

\* the characters used, in code point order
Letters == <<" ", ",", "0", "Y", "a", "b", "c", "e", "i", "k", "l", "n", "o", "q",
             "r", "s", "t", "u", "x", "y",
             "alef", "bet", "gimel", "dalet", "he", "vav", "zayin", "het", "tet",
             "yod", "kaf_sofit", "kaf", "lamed", "mem_sofit", "mem", "nun_sofit",
             "nun", "samekh", "ayin", "pe_sofit", "pe", "tsadi_sofit", "tsadi",
             "qof", "resh", "shin", "tav">>

Ord(c) == CHOOSE i \in DOMAIN Letters : Letters[i] = c

RECURSIVE StrLess(_, _)
\* a < b as Python strings
StrLess(a, b) ==
    IF Len(b) = 0 THEN FALSE
    ELSE IF Len(a) = 0 THEN TRUE
    ELSE IF a[1] # b[1] THEN Ord(a[1]) < Ord(b[1])
    ELSE StrLess(Tail(a), Tail(b))

Gezer == <<"gimel", "zayin", "resh">>
Gzarim == <<"gimel", "zayin", "resh", "yod", "mem_sofit">>
Tapuach == <<"tav", "pe", "vav", "het">>
Tapuchim == <<"tav", "pe", "vav", "het", "yod", "mem_sofit">>
Of == <<"ayin", "vav", "pe_sofit">>
Sakit == <<"shin", "qof", "yod", "tav">>
Halav == <<"het", "lamed", "bet">>

Names == {Tapuach, Tapuchim, Of, Sakit, Halav, Gezer, Gzarim}

----------------------------------------------------------------------------
(* difflib.SequenceMatcher and get_close_matches.                          *)

RECURSIVE CommonLen(_, _, _, _, _, _)
\* length of the longest common prefix of a[i..ahi] and b[j..bhi]
CommonLen(a, b, i, j, ahi, bhi) ==
    IF i > ahi \/ j > bhi \/ a[i] # b[j] THEN 0
    ELSE 1 + CommonLen(a, b, i + 1, j + 1, ahi, bhi)

\* find_longest_match: the longest block, the earliest in a, then the earliest in b
FindLongestMatch(a, b, alo, ahi, blo, bhi) ==
    LET Earlier(p, q) == p.i < q.i \/ (p.i = q.i /\ p.j <= q.j)
        Longest(blocks) ==
            IF blocks = {} THEN [i |-> alo, j |-> blo, k |-> 0]
            ELSE CHOOSE p \in blocks :
                    \A q \in blocks : p.k > q.k \/ (p.k = q.k /\ Earlier(p, q))
    IN  Longest({m \in {[i |-> i, j |-> j, k |-> CommonLen(a, b, i, j, ahi, bhi)] :
                            i \in alo..ahi, j \in blo..bhi} : m.k > 0})

RECURSIVE MatchCount(_, _, _, _, _, _)
\* get_matching_blocks: the total size of the matching blocks of a[alo..ahi], b[blo..bhi]
MatchCount(a, b, alo, ahi, blo, bhi) ==
    LET Around(m) ==
            IF m.k = 0 THEN 0
            ELSE m.k + MatchCount(a, b, alo, m.i - 1, blo, m.j - 1)
                     + MatchCount(a, b, m.i + m.k, ahi, m.j + m.k, bhi)
    IN  Around(FindLongestMatch(a, b, alo, ahi, blo, bhi))

\* SequenceMatcher(None, a, b).ratio() as the fraction num / den (1.0 when both are empty)
Ratio(a, b) ==
    IF Len(a) + Len(b) = 0 THEN [num |-> 1, den |-> 1]
    ELSE [num |-> 2 * MatchCount(a, b, 1, Len(a), 1, Len(b)), den |-> Len(a) + Len(b)]

\* the ratios of the names of the model, computed once
RatioOfNames == [p \in Names \X Names |-> Ratio(p[1], p[2])]

\* ratio(a, b)
RatioOf(a, b) == IF a \in Names /\ b \in Names THEN RatioOfNames[<<a, b>>] ELSE Ratio(a, b)

RatioAtLeast(r, pct) == r.num * 100 >= pct * r.den

RatioLess(r, s) == r.num * s.den < s.num * r.den

\* get_close_matches keeping the possibility with the least (ratio(x, word), x) among
\* those with ratio >= cutoff
get_far_matches(word, possibilities, cutoff) ==
    LET Better(x, y) == \/ RatioLess(y.ratio, x.ratio)
                        \/ ~RatioLess(x.ratio, y.ratio) /\ StrLess(y.name, x.name)
        Worst(good) ==
            IF good = {} THEN <<>>
            ELSE <<(CHOOSE x \in good : \A y \in good \ {x} : Better(y, x)).name>>
    IN  Worst({s \in {[name |-> x, ratio |-> RatioOf(x, word)] : x \in possibilities} :
                RatioAtLeast(s.ratio, cutoff)})

\* get_close_matches(word, possibilities, n=1, cutoff): the possibility x with the
\* greatest (ratio(x, word), x), among those with ratio >= cutoff; [] when there is none
get_close_matches(word, possibilities, cutoff) ==
    LET Better(x, y) == \/ RatioLess(y.ratio, x.ratio)
                        \/ ~RatioLess(x.ratio, y.ratio) /\ StrLess(y.name, x.name)
        Best(good) ==
            IF good = {} THEN <<>>
            ELSE <<(CHOOSE x \in good : \A y \in good \ {x} : Better(x, y)).name>>
    IN  Best({s \in {[name |-> x, ratio |-> RatioOf(x, word)] : x \in possibilities} :
                RatioAtLeast(s.ratio, cutoff)})

----------------------------------------------------------------------------
(* Quantities.                                                             *)

\* round(x, 3): to the nearest multiple of Milli, a tie to the even one
Round3(x) ==
    LET lo == (x \div Milli) * Milli
        r  == x - lo
    IN  IF 2 * r < Milli THEN lo
        ELSE IF 2 * r > Milli THEN lo + Milli
        ELSE IF (lo \div Milli) % 2 = 0 THEN lo ELSE lo + Milli

\* float(quantity_used) taken as it is
Unclamped(q) == q

\* max(1.0, float(quantity_used))
ClampUsed(q) == Max(Unit, q)


----------------------------------------------------------------------------
(* The store: fridge_items.                                                *)

Produce == "produce"
Meat == "meat"
\* the category of NON_FOOD_CATEGORIES
Other == "other"

NON_FOOD_CATEGORIES == {Other}

NON_FOOD_NAME_TOKENS ==
    << <<"pe", "yod", "qof", "dalet", "vav", "nun_sofit">>,
       <<"shin", "qof", "yod", "tav">>,
       <<"qof", "resh", "tet", "vav", "nun_sofit">>,
       <<"alef", "resh", "yod", "zayin", "he">> >>

\* the items a receipt can list
Apple == [item_name |-> Tapuach, category |-> Produce, quantity |-> 5 * Unit,
          estimated_expiry_days |-> 10]
Apples == [item_name |-> Tapuchim, category |-> Produce, quantity |-> 3 * Unit + 6,
           estimated_expiry_days |-> 10]
Chicken == [item_name |-> Of, category |-> Meat, quantity |-> Unit + 4,
            estimated_expiry_days |-> 90]
Bag == [item_name |-> Sakit, category |-> Other, quantity |-> Unit,
        estimated_expiry_days |-> 0]

\* the receipts recognition can return
FirstReceipt == [receipt_date |-> 1, items |-> <<Apple, Chicken>>]
LaterReceipt == [receipt_date |-> 2, items |-> <<Apples>>]

Receipts == {FirstReceipt, LaterReceipt}

\* an item without estimated_expiry_days
Milk == [item_name |-> Halav, category |-> Produce, quantity |-> 2 * Unit]

\* a receipt that lists one item twice, and one whose items have no shelf life
TwiceReceipt == [receipt_date |-> 2, items |-> <<Apple, Apple>>]
OddReceipt == [receipt_date |-> 1, items |-> <<Bag, Milk>>]

AllReceipts == Receipts \cup {TwiceReceipt, OddReceipt}

\* a name in the singular and in the plural, on receipts of two days
Carrot == [item_name |-> Gezer, category |-> Produce, quantity |-> Unit,
           estimated_expiry_days |-> 14]
Carrots == [item_name |-> Gzarim, category |-> Produce, quantity |-> 2 * Unit,
            estimated_expiry_days |-> 14]

CarrotReceipts ==
    { [receipt_date |-> 1, items |-> <<Carrot>>],
      [receipt_date |-> 2, items |-> <<Carrots>>] }

RECURSIVE ActiveIds(_, _)
\* the ids of the rows with status=eq.active starting at row i, in the order the store
\* returns them: by id
ActiveIds(rows, i) ==
    IF i > Len(rows) THEN <<>>
    ELSE (IF rows[i].status = "active" THEN <<i>> ELSE <<>>) \o ActiveIds(rows, i + 1)

\* get_active_items giving every row a purchase date one day too early
get_aged_items(rows) ==
    LET ids == ActiveIds(rows, 1)
    IN  [k \in DOMAIN ids |->
            [id |-> ids[k], item_name |-> rows[ids[k]].item_name,
             purchase_date |-> rows[ids[k]].purchase_date - 1]]

\* get_active_items: select=id,item_name,purchase_date of the active rows
get_active_items(rows) ==
    LET ids == ActiveIds(rows, 1)
    IN  [k \in DOMAIN ids |->
            [id |-> ids[k], item_name |-> rows[ids[k]].item_name,
             purchase_date |-> rows[ids[k]].purchase_date]]

\* {item[name]: item for item in items}: the last item of each name
DictByName(items) ==
    [n \in {items[k].item_name : k \in DOMAIN items} |->
        items[CHOOSE k \in DOMAIN items :
                /\ items[k].item_name = n
                /\ \A j \in DOMAIN items : items[j].item_name = n => j <= k]]

\* find_best_match looking only among the other names
find_other_match(target_name, active_items_dict, threshold) ==
    LET Found(matches) ==
            IF matches # <<>> THEN <<active_items_dict[matches[1]]>> ELSE None
    IN  Found(get_close_matches(target_name, DOMAIN active_items_dict \ {target_name},
                                threshold))

\* find_best_match(target_name, active_items_dict, threshold)
find_best_match(target_name, active_items_dict, threshold) ==
    LET Found(matches) ==
            IF matches # <<>> THEN <<active_items_dict[matches[1]]>> ELSE None
    IN  Found(get_close_matches(target_name, DOMAIN active_items_dict, threshold))

\* update_consumed_items whose PATCH reaches no row
update_no_items(rows, item_ids) == rows

\* update_consumed_items: PATCH {"status": "consumed"} on the rows of item_ids
update_consumed_items(rows, item_ids) ==
    [i \in DOMAIN rows |->
        IF i \in item_ids THEN [rows[i] EXCEPT !.status = "consumed"] ELSE rows[i]]

\* item.get("estimated_expiry_days", 0)
ExpiryDays(item) ==
    IF "estimated_expiry_days" \in DOMAIN item THEN item.estimated_expiry_days ELSE 0

RECURSIVE SyncLoop(_, _, _, _, _)
\* the loop of save_to_db over the receipt's items: what to insert, what to retire
SyncLoop(items, k, active_dict, receipt_date, acc) ==
    IF k > Len(items) THEN acc
    ELSE
        LET item == items[k]
            db_row == [item_name |-> item.item_name,
                       category |-> item.category,
                       quantity |-> item.quantity,
                       purchase_date |-> receipt_date,
                       expiry_date |-> receipt_date + ExpiryDays(item),
                       status |-> "active"]
            Body(matched) ==
                IF matched # None /\ matched[1].purchase_date = receipt_date
                THEN [acc EXCEPT !.skipped = @ + 1]
                ELSE [insert |-> Append(acc.insert, db_row),
                      retire |-> IF /\ matched # None
                                    /\ receipt_date > matched[1].purchase_date
                                 THEN Append(acc.retire, matched[1].id)
                                 ELSE acc.retire,
                      skipped |-> acc.skipped]
        IN  SyncLoop(items, k + 1, active_dict, receipt_date,
                     Body(find_best_match(item.item_name, active_dict, IngestThreshold)))

\* SyncPlan matching against every row of the table, the consumed ones too
SyncPlanOverAll(rows, parsed_data) ==
    SyncLoop(parsed_data.items, 1,
             DictByName([i \in DOMAIN rows |->
                            [id |-> i, item_name |-> rows[i].item_name,
                             purchase_date |-> rows[i].purchase_date]]),
             parsed_data.receipt_date,
             [insert |-> <<>>, retire |-> <<>>, skipped |-> 0])

\* items_to_insert and old_items_to_mark_consumed of save_to_db for a receipt
SyncPlan(rows, parsed_data) ==
    SyncLoop(parsed_data.items, 1, DictByName(get_active_items(rows)),
             parsed_data.receipt_date,
             [insert |-> <<>>, retire |-> <<>>, skipped |-> 0])

\* the store call of save_to_db that fails, if any: the fetch of the active items, the
\* retirement patch or the batch insert
StoreFailures == {"none", "fetch", "patch", "insert"}

\* the table after save_to_db has carried out plan, the store failing as fail says
Synced(rows, plan, fail) ==
    LET retired == IF plan.retire # <<>>
                   THEN update_consumed_items(rows, Range(plan.retire))
                   ELSE rows
    IN  IF fail = "fetch" THEN rows
        ELSE IF fail = "patch" /\ plan.retire # <<>> THEN rows
        ELSE IF fail = "insert" /\ plan.insert # <<>> THEN retired
        ELSE retired \o plan.insert

\* the locals of save_to_db when it returns; before the fetch answered there are no
\* lists. recent is whether the newest active row had been inserted less than 15
\* minutes before the run, which save_to_db does not look at
Scanned(parsed_data, plan, fail, recent) ==
    [parsed_data |-> parsed_data,
     recent |-> recent,
     items_to_insert |-> IF fail = "fetch" THEN <<>> ELSE plan.insert,
     old_items_to_mark_consumed |-> IF fail = "fetch" THEN <<>> ELSE plan.retire,
     skipped_duplicates |-> IF fail = "fetch" THEN 0 ELSE plan.skipped,
     fail |-> fail]

\* no receipt was scanned yet
NoScan == Scanned([receipt_date |-> 0, items |-> <<>>],
                  [insert |-> <<>>, retire |-> <<>>, skipped |-> 0], "none", FALSE)

\* save_to_db(parsed_data)
save_to_db(parsed_data) ==
    \E plan \in {SyncPlan(db, parsed_data)} : \E fail \in StoreFailures :
    \E recent \in {FALSE, get_active_items(db) # <<>>} :
        /\ Len(db) + Len(plan.insert) <= MaxRows
        /\ db' = Synced(db, plan, fail)
        /\ scan' = Scanned(parsed_data, plan, fail, recent)
        /\ UNCHANGED <<creds, shoppingList, sessions, heap, chats, opened, req, response, cli>>

----------------------------------------------------------------------------
(* chef_agent: the inventory a recipe is generated from.                   *)

\* _is_food_item
_is_food_item(item) ==
    /\ item.category \notin NON_FOOD_CATEGORIES
    /\ \A k \in DOMAIN NON_FOOD_NAME_TOKENS :
            ~Contains(item.item_name, NON_FOOD_NAME_TOKENS[k])

RECURSIVE InsertByExpiry(_, _)
\* x put after the items of the sorted s that expire no later (list.sort is stable)
InsertByExpiry(s, x) ==
    IF s = <<>> THEN <<x>>
    ELSE IF s[Len(s)].expiry_date <= x.expiry_date THEN Append(s, x)
    ELSE Append(InsertByExpiry(SubSeq(s, 1, Len(s) - 1), x), s[Len(s)])

RECURSIVE SortByExpiry(_, _)
\* food_items.sort(key=expiry_date) of the first n items of s
SortByExpiry(s, n) ==
    IF n = 0 THEN <<>> ELSE InsertByExpiry(SortByExpiry(s, n - 1), s[n])

RECURSIVE FoodOnly(_, _)
FoodOnly(s, k) ==
    IF k > Len(s) THEN <<>>
    ELSE (IF _is_food_item(s[k]) THEN <<s[k]>> ELSE <<>>) \o FoodOnly(s, k + 1)

\* get_all_active_items(): [] without credentials or when the fetch fails
get_all_active_items(rows, haveCreds, fetchOk) ==
    IF ~haveCreds \/ ~fetchOk THEN <<>>
    ELSE
        LET ids == ActiveIds(rows, 1)
            all_items == [k \in DOMAIN ids |->
                            [id |-> ids[k],
                             item_name |-> rows[ids[k]].item_name,
                             category |-> rows[ids[k]].category,
                             quantity |-> rows[ids[k]].quantity,
                             expiry_date |-> rows[ids[k]].expiry_date]]
            food_items == FoodOnly(all_items, 1)
        IN  SortByExpiry(food_items, Len(food_items))

----------------------------------------------------------------------------
(* The generative collaborator: what _send_and_parse can give.             *)

Used(n, q) == [item_name |-> n, quantity_used |-> q]

Draft(name, used) ==
    [recipe_name |-> name, used_fridge_items |-> used, _raw_fallback |-> FALSE]

\* the well-formed recipes the collaborator can return
Drafts ==
    { Draft("salad", <<Used(Tapuach, 2 * Unit)>>),
      Draft("roast", <<Used(Of, 3000), Used(Of, Unit)>>),
      Draft("pie", <<Used(Halav, Unit), Used(Tapuchim, 7 * Unit)>>),
      Draft("toast", <<>>) }

\* a well-formed recipe whose quantities are zero and negative
Juice == Draft("juice", <<Used(Tapuchim, 0), Used(Tapuach, 0 - Unit)>>)

\* _parse_recipe_response's container for a reply that is no JSON object
Fallback == [recipe_name |-> "fallback", used_fridge_items |-> <<>>, _raw_fallback |-> TRUE]

\* the outcomes of _send_and_parse: send_message raises, or a recipe is parsed
Replies == {[raised |-> TRUE]} \cup {[raised |-> FALSE, recipe |-> d] : d \in Drafts \cup {Fallback}}

\* only a call that raised is refused: the _raw_fallback test is left out
OnlyRaised(reply) == reply.raised

\* the call raised, or gave the fallback container
Unusable(reply) == reply.raised \/ reply.recipe._raw_fallback

----------------------------------------------------------------------------
(* api_server.                                                             *)

Users == {"u1", "u2"}

Threads == {"t1", "t2"}

GuestCounts == {1, 2}

\* a thread between requests
Idle == [pc |-> "idle"]

\* no run of the command-line chef is going on
Off == [pc |-> "off"]

\* no server thread is handling a request
Quiet == \A t \in Threads : req[t].pc = "idle"

\* thread t can take a request: the model lets no request begin during a run of the
\* command-line chef, and no run begin during a request
Free(t) == req[t].pc = "idle" /\ cli.pc = "off"

\* session objects and chats some thread, the session store or the command-line run
\* still refers to
Live(s, r, k) ==
    {s[u] : u \in DOMAIN s}
        \cup (IF k.pc = "off" THEN {} ELSE {k.chat})
        \cup {r[t].chat : t \in {x \in DOMAIN r : r[x].pc \in {"generate", "scale"}}}
        \cup {r[t].session : t \in {x \in DOMAIN r : r[x].pc \in {"revise"}}}

\* the history of a chat just created: the revision prompts sent on it, and the last
\* well-formed recipe it gave
NoHistory == [revisions |-> 0, latest |-> None]

\* the history of chat c once it gave a well-formed recipe
Gave(c, chat, recipe) == [c EXCEPT ![chat].latest = <<recipe>>]

\* _create_chef_chat(): a chat no one refers to yet
NewChat ==
    LET live == Live(sessions, req, cli)
    IN  CHOOSE c \in 1..(Cardinality(live) + 1) :
            /\ c \notin live
            /\ \A d \in 1..(c - 1) : d \in live

\* what is left of the objects f once the unreferenced ones are reclaimed
Collect(f, s, r, k) == [c \in DOMAIN f \cap Live(s, r, k) |-> f[c]]

\* _require_session handing out another user's session when user_id has none
AnySession(user_id) ==
    IF user_id \in DOMAIN sessions THEN <<sessions[user_id]>>
    ELSE IF DOMAIN sessions # {} THEN <<sessions[CHOOSE u \in DOMAIN sessions : TRUE]>>
    ELSE None

\* _require_session: the session object of user_id, None for a 404
_require_session(user_id) ==
    IF user_id \in DOMAIN sessions THEN <<sessions[user_id]>> ELSE None

\* _resolve_fridge_item taking the closest name whatever its ratio
resolve_closest(name, fridge_by_name) ==
    LET Found(close) == IF close # <<>> THEN <<fridge_by_name[close[1]]>> ELSE None
    IN  IF name \in DOMAIN fridge_by_name THEN <<fridge_by_name[name]>>
        ELSE Found(get_close_matches(name, DOMAIN fridge_by_name, 0))

\* _resolve_fridge_item
_resolve_fridge_item(name, fridge_by_name) ==
    LET Found(close) == IF close # <<>> THEN <<fridge_by_name[close[1]]>> ELSE None
    IN  IF name \in DOMAIN fridge_by_name THEN <<fridge_by_name[name]>>
        ELSE Found(get_close_matches(name, DOMAIN fridge_by_name, ConsumeCutoff))

\* _patch_fridge_item on table fridge_items
_patch_fridge_item(rows, item_id, patch_data) ==
    [rows EXCEPT ![item_id] =
        [f \in DOMAIN @ |-> IF f \in DOMAIN patch_data THEN patch_data[f] ELSE @[f]]]

\* add_to_smart_list posting the entry twice
add_twice(list, item_name, row) ==
    list (+) SetToBag({[item_name |-> item_name, status |-> "pending", row |-> row]})
         (+) SetToBag({[item_name |-> item_name, status |-> "pending", row |-> row]})

\* add_to_smart_list; row, the row the entry is about, is not stored: it is kept
\* here to count the entries each row gives rise to
add_to_smart_list(list, item_name, row) ==
    list (+) SetToBag({[item_name |-> item_name, status |-> "pending", row |-> row]})

\* _sessions[user_id] = session
SetSession(user_id, session) ==
    [x \in DOMAIN sessions \cup {user_id} |->
        IF x = user_id THEN session ELSE sessions[x]]

\* confirm_recipe returning without the pop
NotPopped(user_id) == sessions

\* _sessions.pop(user_id, None)
Popped(user_id) == [x \in DOMAIN sessions \ {user_id} |-> sessions[x]]

\* revise_recipe leaving the session's recipe as it was
KeptDraft(session, revised_recipe) == heap

\* revise_recipe updating the used items of the stored recipe and keeping its other fields
MergedDraft(session, revised_recipe) ==
    [heap EXCEPT ![session].recipe.used_fridge_items = revised_recipe.used_fridge_items]

\* session["recipe"] = revised_recipe
Revised(session, revised_recipe) == [heap EXCEPT ![session].recipe = revised_recipe]

\* a request of thread t ends, with an HTTP status; the objects nothing refers to
\* any more are reclaimed
Finish(t, status, s, h, c) ==
    LET q == [req EXCEPT ![t] = Idle]
    IN  /\ req' = q
        /\ response' = status
        /\ sessions' = s
        /\ heap' = Collect(h, s, q, cli)
        /\ chats' = Collect(c, s, q, cli)

\* generate_recipe, step 5, as _sessions.setdefault(user_id, {...}): a session the
\* user already has survives
StoreIfAbsent(t, recipe, c) ==
    LET r == req[t]
        h == [x \in DOMAIN heap \cup {r.chat} |->
                IF x = r.chat
                THEN [chat |-> r.chat, active_items |-> r.active_items, recipe |-> recipe]
                ELSE heap[x]]
    IN  IF r.user \in DOMAIN sessions
        THEN Finish(t, 200, sessions, heap, c)
        ELSE Finish(t, 200, SetSession(r.user, r.chat), h, c)

\* generate_recipe, step 5: _sessions[user_id] = {chat, active_items, recipe}
StoreSession(t, recipe, c) ==
    LET r == req[t]
        h == [x \in DOMAIN heap \cup {r.chat} |->
                IF x = r.chat
                THEN [chat |-> r.chat, active_items |-> r.active_items, recipe |-> recipe]
                ELSE heap[x]]
    IN  Finish(t, 200, SetSession(r.user, r.chat), h, c)

\* generate_recipe, steps 1 and 2: fetch the inventory (fetchOk: the store answers),
\* open the chat
GenerateFetch(t, U) ==
    /\ Free(t)
    /\ opened < MaxChats
    /\ \E fetchOk \in BOOLEAN : \E active_items \in {get_all_active_items(db, creds, fetchOk)} :
       \E chat \in {NewChat} : \E u \in U, guests \in GuestCounts :
        /\ IF active_items = <<>>
           THEN Finish(t, 409, sessions, heap, chats) /\ UNCHANGED opened
           ELSE /\ req' = [req EXCEPT ![t] =
                            [pc |-> "generate", user |-> u, guests |-> guests,
                             chat |-> chat, active_items |-> active_items]]
                /\ chats' = [c \in DOMAIN chats \cup {chat} |->
                                IF c = chat THEN NoHistory ELSE chats[c]]
                /\ opened' = opened + 1
                /\ UNCHANGED <<sessions, heap, response>>
        /\ UNCHANGED <<probe, recognition, scan, creds, db, shoppingList, cli>>

\* generate_recipe, step 3, clearing the user's session when the call gives nothing usable
GenerateCallDropping(t, reply) ==
    /\ req[t].pc = "generate"
    /\ IF Unusable(reply)
       THEN Finish(t, 502, Popped(req[t].user), heap, chats)
       ELSE StoreSession(t, reply.recipe, Gave(chats, req[t].chat, reply.recipe))
    /\ UNCHANGED <<probe, recognition, scan, creds, db, shoppingList, opened, cli>>

\* generate_recipe, step 3, and step 5 when there is no scaling
GenerateCall(t, reply) ==
    /\ req[t].pc = "generate"
    /\ IF Unusable(reply)
       THEN Finish(t, 502, sessions, heap, chats)
       ELSE IF req[t].guests > 1
       THEN /\ req' = [req EXCEPT ![t] =
                        [pc |-> "scale", user |-> @.user, guests |-> @.guests,
                         chat |-> @.chat, active_items |-> @.active_items,
                         recipe |-> reply.recipe]]
            /\ chats' = Gave(chats, req[t].chat, reply.recipe)
            /\ UNCHANGED <<sessions, heap, response>>
       ELSE StoreSession(t, reply.recipe, Gave(chats, req[t].chat, reply.recipe))
    /\ UNCHANGED <<probe, recognition, scan, creds, db, shoppingList, opened, cli>>

\* generate_recipe, step 4, refusing the request when the scaling call gives nothing usable
ScaleOrFail(t, reply) ==
    /\ req[t].pc = "scale"
    /\ IF Unusable(reply)
       THEN Finish(t, 502, sessions, heap, chats)
       ELSE StoreSession(t, reply.recipe, Gave(chats, req[t].chat, reply.recipe))
    /\ UNCHANGED <<probe, recognition, scan, creds, db, shoppingList, opened, cli>>

\* generate_recipe, step 4 and step 5
GenerateScale(t, reply) ==
    /\ req[t].pc = "scale"
    /\ IF Unusable(reply)
       THEN StoreSession(t, req[t].recipe, chats)
       ELSE StoreSession(t, reply.recipe, Gave(chats, req[t].chat, reply.recipe))
    /\ UNCHANGED <<probe, recognition, scan, creds, db, shoppingList, opened, cli>>

\* revise_recipe: session = _require_session(user_id)
ReviseBegin(t, u, cap) ==
    LET session == _require_session(u)
    IN  /\ Free(t)
        /\ IF session = None
           THEN Finish(t, 404, sessions, heap, chats)
           ELSE /\ chats[heap[session[1]].chat].revisions < cap
                /\ req' = [req EXCEPT ![t] =
                            [pc |-> "revise", user |-> u, session |-> session[1]]]
                /\ UNCHANGED <<sessions, heap, chats, response>>
        /\ UNCHANGED <<probe, recognition, scan, creds, db, shoppingList, opened, cli>>

\* revise_recipe storing the fallback container in the session when the call fails
ReviseCallClobbering(t, reply) ==
    LET r == req[t]
        sent == [chats EXCEPT ![heap[r.session].chat].revisions = @ + 1]
    IN  /\ r.pc = "revise"
        /\ IF Unusable(reply)
           THEN Finish(t, 502, sessions, Revised(r.session, Fallback), sent)
           ELSE Finish(t, 200, SetSession(r.user, r.session),
                       Revised(r.session, reply.recipe),
                       Gave(sent, heap[r.session].chat, reply.recipe))
        /\ UNCHANGED <<probe, recognition, scan, creds, db, shoppingList, opened, cli>>

\* revise_recipe: the revision call on the session's chat, then the update of the session
ReviseCall(t, reply) ==
    LET r == req[t]
        sent == [chats EXCEPT ![heap[r.session].chat].revisions = @ + 1]
    IN  /\ r.pc = "revise"
        /\ IF Unusable(reply)
           THEN Finish(t, 502, sessions, heap, sent)
           ELSE Finish(t, 200, SetSession(r.user, r.session),
                       Revised(r.session, reply.recipe),
                       Gave(sent, heap[r.session].chat, reply.recipe))
        /\ UNCHANGED <<probe, recognition, scan, creds, db, shoppingList, opened, cli>>

\* confirm_recipe taking the rows from a fetch of its own, not from the session
ConfirmBeginFetching(t, u) ==
    LET session == _require_session(u)
    IN  /\ Free(t)
        /\ IF session = None
           THEN Finish(t, 404, sessions, heap, chats)
           ELSE LET recipe == heap[session[1]].recipe
                    used_items == recipe.used_fridge_items
                IN  IF ~creds THEN Finish(t, 500, sessions, heap, chats)
                    ELSE IF used_items = <<>> THEN Finish(t, 422, sessions, heap, chats)
                    ELSE /\ req' = [req EXCEPT ![t] =
                                    [pc |-> "loop", user |-> u, recipe |-> recipe,
                                     used_items |-> used_items,
                                     fridge_by_name |->
                                        DictByName(get_all_active_items(db, creds, TRUE)),
                                     idx |-> 1,
                                     deducted |-> <<>>, shopping |-> <<>>]]
                         /\ UNCHANGED <<sessions, heap, chats, response>>
        /\ UNCHANGED <<probe, recognition, scan, creds, db, shoppingList, opened, cli>>

\* confirm_recipe destroying the session when it rejects the request
ConfirmBeginPopping(t, u) ==
    LET session == _require_session(u)
    IN  /\ Free(t)
        /\ IF session = None
           THEN Finish(t, 404, sessions, heap, chats)
           ELSE LET recipe == heap[session[1]].recipe
                    active_items == heap[session[1]].active_items
                    used_items == recipe.used_fridge_items
                IN  IF ~creds THEN Finish(t, 500, Popped(u), heap, chats)
                    ELSE IF used_items = <<>> THEN Finish(t, 422, Popped(u), heap, chats)
                    ELSE /\ req' = [req EXCEPT ![t] =
                                    [pc |-> "loop", user |-> u, recipe |-> recipe,
                                     used_items |-> used_items,
                                     fridge_by_name |-> DictByName(active_items),
                                     idx |-> 1,
                                     deducted |-> <<>>, shopping |-> <<>>]]
                         /\ UNCHANGED <<sessions, heap, chats, response>>
        /\ UNCHANGED <<probe, recognition, scan, creds, db, shoppingList, opened, cli>>

\* confirm_recipe up to the loop: the session, the credentials, the used items
ConfirmBegin(t, u) ==
    LET session == _require_session(u)
    IN  /\ Free(t)
        /\ IF session = None
           THEN Finish(t, 404, sessions, heap, chats)
           ELSE LET recipe == heap[session[1]].recipe
                    active_items == heap[session[1]].active_items
                    used_items == recipe.used_fridge_items
                IN  IF ~creds THEN Finish(t, 500, sessions, heap, chats)
                    ELSE IF used_items = <<>> THEN Finish(t, 422, sessions, heap, chats)
                    ELSE /\ req' = [req EXCEPT ![t] =
                                    [pc |-> "loop", user |-> u, recipe |-> recipe,
                                     used_items |-> used_items,
                                     fridge_by_name |-> DictByName(active_items),
                                     idx |-> 1,
                                     deducted |-> <<>>, shopping |-> <<>>]]
                         /\ UNCHANGED <<sessions, heap, chats, response>>
        /\ UNCHANGED <<probe, recognition, scan, creds, db, shoppingList, opened, cli>>

\* the loop left at the first item that is skipped or done: break where the code continues
LastItem(r, deducted, shopping) ==
    [pc |-> "loop", user |-> r.user, recipe |-> r.recipe, used_items |-> r.used_items,
     fridge_by_name |-> r.fridge_by_name, idx |-> Len(r.used_items) + 1,
     deducted |-> deducted, shopping |-> shopping]

\* the next iteration of the loop: the thread's record, its loop variable advanced
NextItem(r, deducted, shopping) ==
    [pc |-> "loop", user |-> r.user, recipe |-> r.recipe, used_items |-> r.used_items,
     fridge_by_name |-> r.fridge_by_name, idx |-> r.idx + 1,
     deducted |-> deducted, shopping |-> shopping]

\* DeductedItem(...)
DeductedItem(r, after, consumed) ==
    [item_name |-> r.db_item.item_name, quantity_before |-> r.db_item.quantity,
     quantity_deducted |-> r.qty_used, quantity_after |-> after,
     fully_consumed |-> consumed]

\* confirm_recipe: one used item is resolved and its remainder computed; after the
\* last one the session is popped and the response returned
ConfirmResolve(t) ==
    LET r == req[t]
    IN  /\ r.pc = "loop"
        /\ IF r.idx > Len(r.used_items)
           THEN Finish(t, 200, Popped(r.user), heap, chats)
           ELSE LET used == r.used_items[r.idx]
                    qty_used == ClampUsed(used.quantity_used)
                IN  /\ \E db_item \in {_resolve_fridge_item(Strip(used.item_name),
                                                           r.fridge_by_name)} :
                        req' = [req EXCEPT ![t] =
                            IF db_item = None THEN NextItem(r, r.deducted, r.shopping)
                            ELSE [pc |-> "patch", user |-> r.user, recipe |-> r.recipe,
                                  used_items |-> r.used_items,
                                  fridge_by_name |-> r.fridge_by_name, idx |-> r.idx,
                                  deducted |-> r.deducted, shopping |-> r.shopping,
                                  db_item |-> db_item[1], qty_used |-> qty_used,
                                  remaining_qty |->
                                      Round3(db_item[1].quantity - qty_used)]]
                    /\ UNCHANGED <<sessions, heap, chats, response>>
        /\ UNCHANGED <<probe, recognition, scan, creds, db, shoppingList, opened, cli>>

\* confirm_recipe: the PATCH of the resolved row; patchOk is whether the store accepts it
ConfirmPatch(t, patchOk) ==
    LET r == req[t]
    IN  /\ r.pc = "patch"
        /\ IF ~patchOk
           THEN /\ req' = [req EXCEPT ![t] = NextItem(r, r.deducted, r.shopping)]
                /\ UNCHANGED db
           ELSE IF r.remaining_qty <= 0
           THEN /\ db' = _patch_fridge_item(db, r.db_item.id,
                                            [status |-> "consumed", quantity |-> 0])
                /\ req' = [req EXCEPT ![t].pc = "shop"]
           ELSE /\ db' = _patch_fridge_item(db, r.db_item.id,
                                            [quantity |-> r.remaining_qty])
                /\ req' = [req EXCEPT ![t] =
                            NextItem(r, Append(r.deducted,
                                               DeductedItem(r, r.remaining_qty, FALSE)),
                                     r.shopping)]
        /\ UNCHANGED <<probe, recognition, scan, creds, shoppingList, sessions, heap, chats,
                       opened, response, cli>>

\* confirm_recipe: add_to_smart_list after a consuming PATCH; shopOk is whether the
\* store accepts the insert
ConfirmShop(t, shopOk) ==
    LET r == req[t]
    IN  /\ r.pc = "shop"
        /\ IF shopOk
           THEN /\ shoppingList' = add_to_smart_list(shoppingList, r.db_item.item_name,
                                                     r.db_item.id)
                /\ req' = [req EXCEPT ![t] =
                            NextItem(r, Append(r.deducted, DeductedItem(r, 0, TRUE)),
                                     Append(r.shopping, r.db_item.item_name))]
           ELSE /\ req' = [req EXCEPT ![t] = NextItem(r, r.deducted, r.shopping)]
                /\ UNCHANGED shoppingList
        /\ UNCHANGED <<probe, recognition, scan, creds, db, sessions, heap, chats, opened,
                       response, cli>>

----------------------------------------------------------------------------
(* chef_agent: the command-line conversation.                              *)

_AFFIRM_KEYWORDS ==
    { <<"kaf", "nun_sofit">>, <<"yod", "alef", "lamed", "lamed", "he">>,
      <<"samekh", "bet", "bet", "he">>,
      <<"alef", "nun", "yod", " ", "mem", "kaf", "yod", "nun_sofit">>,
      <<"mem", "ayin", "vav", "lamed", "he">>,
      <<"mem", "tsadi", "vav", "yod", "nun_sofit">>,
      <<"alef", "het", "lamed", "he">>, <<"bet", "samekh", "dalet", "resh">>,
      <<"he", "vav", "lamed", "kaf_sofit">>, <<"qof", "dalet", "yod", "mem", "he">>,
      <<"nun", "ayin", "shin", "he">>, <<"yod", "alef", "he">>,
      <<"tet", "vav", "bet">>, <<"tav", "vav", "dalet", "he">>,
      <<"o", "k">>, <<"s", "u", "r", "e">>, <<"y", "e", "s">>, <<"y">> }

_CHANGE_KEYWORDS ==
    { <<"lamed", "alef">>, <<"alef", "bet", "lamed">>,
      <<"lamed", "shin", "nun", "vav", "tav">>, <<"bet", "lamed", "yod">>,
      <<"shin", "nun", "he">>, <<"pe", "het", "vav", "tav">>,
      <<"yod", "vav", "tav", "resh">>, <<"bet", "mem", "qof", "vav", "mem_sofit">>,
      <<"alef", "het", "resh", "tav">>, <<"resh", "qof">> }

_CANCEL_PHRASES ==
    { <<"lamed", "alef", " ", "tsadi", "resh", "yod", "kaf_sofit">>,
      <<"lamed", "alef", " ", "tav", "vav", "dalet", "he">>,
      <<"lamed", "alef", ",", " ", "tav", "vav", "dalet", "he">>,
      <<"tav", "vav", "dalet", "he", " ", "resh", "bet", "he">>,
      <<"bet", "yod", "yod">>, <<"b", "y", "e">>,
      <<"c", "a", "n", "c", "e", "l">>, <<"e", "x", "i", "t">>,
      <<"q", "u", "i", "t">> }

_CANCEL_EXACT ==
    { <<"lamed", "alef">>, <<"n", "o">>, <<"n">>, <<"0">>, <<"bet", "yod", "yod">>,
      <<"b", "y", "e">> }

\* _classify_user_intent without the veto of the change keywords in step 3
ConfirmOnAffirm(answer) ==
    LET normalized == Lower(Strip(answer))
        has_affirm == \E kw \in _AFFIRM_KEYWORDS : Contains(normalized, kw)
    IN  IF normalized \in _CANCEL_EXACT THEN "cancel"
        ELSE IF \E phrase \in _CANCEL_PHRASES : Contains(normalized, phrase) THEN "cancel"
        ELSE IF has_affirm THEN "confirm"
        ELSE "revise"

\* _classify_user_intent with step 3 taken before the cancellation steps
AffirmFirst(answer) ==
    LET normalized == Lower(Strip(answer))
        has_affirm == \E kw \in _AFFIRM_KEYWORDS : Contains(normalized, kw)
        has_change == \E kw \in _CHANGE_KEYWORDS : Contains(normalized, kw)
    IN  IF has_affirm /\ ~has_change THEN "confirm"
        ELSE IF normalized \in _CANCEL_EXACT THEN "cancel"
        ELSE IF \E phrase \in _CANCEL_PHRASES : Contains(normalized, phrase) THEN "cancel"
        ELSE "revise"

\* _classify_user_intent
_classify_user_intent(answer) ==
    LET normalized == Lower(Strip(answer))
        has_affirm == \E kw \in _AFFIRM_KEYWORDS : Contains(normalized, kw)
        has_change == \E kw \in _CHANGE_KEYWORDS : Contains(normalized, kw)
    IN  IF normalized \in _CANCEL_EXACT THEN "cancel"
        ELSE IF \E phrase \in _CANCEL_PHRASES : Contains(normalized, phrase) THEN "cancel"
        ELSE IF has_affirm /\ ~has_change THEN "confirm"
        ELSE "revise"

\* what the user can type at a prompt
Answers ==
    { <<>>,
      <<" ">>,
      <<"kaf", "nun_sofit">>,
      <<" ", "Y", "e", "s">>,
      <<"lamed", "alef">>,
      <<"tav", "vav", "dalet", "he", " ", "resh", "bet", "he">>,
      <<"kaf", "nun_sofit", " ", "alef", "bet", "lamed", " ", "bet", "lamed", "yod",
        " ", "ayin", "vav", "pe_sofit">>,
      <<"bet", "lamed", "yod", " ", "ayin", "vav", "pe_sofit">>,
      <<"e", "x", "i", "t">> }

\* _read_input
_read_input(typed) == Strip(typed)

\* run_chef_agent returns: its chat is no longer referred to
CliReturn(c) ==
    /\ cli' = Off
    /\ chats' = Collect(c, sessions, req, Off)

\* the prompt of the loop with the revision counter set back to zero
AskingAfresh(k, recipe, revisions) ==
    [pc |-> "ask", chat |-> k.chat, active_items |-> k.active_items,
     recipe |-> recipe, revisions |-> 0]

\* run_chef_agent at the prompt of its loop, showing recipe
Asking(k, recipe, revisions) ==
    [pc |-> "ask", chat |-> k.chat, active_items |-> k.active_items,
     recipe |-> recipe, revisions |-> revisions]

\* run_chef_agent up to its loop: the inventory, the chat, the initial recipe
CliStart(reply) ==
    /\ cli.pc = "off" /\ Quiet
    /\ opened < MaxChats
    /\ \E fetchOk \in BOOLEAN : \E active_items \in {get_all_active_items(db, creds, fetchOk)} :
       \E chat \in {NewChat} :
        IF active_items = <<>> THEN UNCHANGED <<cli, chats, opened>>
        ELSE /\ opened' = opened + 1
             /\ IF reply.raised THEN UNCHANGED <<cli, chats>>
                ELSE /\ cli' = Asking([chat |-> chat, active_items |-> active_items],
                                      reply.recipe, 0)
                     /\ chats' = [c \in DOMAIN chats \cup {chat} |->
                                    IF c # chat THEN chats[c]
                                    ELSE IF reply.recipe._raw_fallback THEN NoHistory
                                    ELSE [NoHistory EXCEPT !.latest = <<reply.recipe>>]]
    /\ UNCHANGED <<probe, recognition, scan, creds, db, shoppingList, sessions, heap,
                   req, response>>

\* run_chef_agent has returned from its cancel branch
Cancelled == [pc |-> "off", intent |-> "cancel"]

\* the cancel branch without its return: the loop goes on to the revision
CancelFallsThrough(feedback) ==
    /\ cli' = [pc |-> "revising", chat |-> cli.chat, active_items |-> cli.active_items,
               recipe |-> cli.recipe, revisions |-> cli.revisions + 1,
               feedback |-> feedback]
    /\ UNCHANGED chats

\* the cancel branch of run_chef_agent: it returns
CliCancel(feedback) ==
    /\ cli' = Cancelled
    /\ chats' = Collect(chats, sessions, req, Off)

\* the loop of run_chef_agent from its prompt to the branch taken on the intent
CliAnswer(typed) ==
    LET feedback == _read_input(typed)
        fallback == cli.recipe._raw_fallback
        intent == IF fallback THEN "revise" ELSE _classify_user_intent(feedback)
        revisions == cli.revisions + 1
    IN  /\ cli.pc = "ask"
        /\ IF fallback /\ feedback = <<>> THEN CliReturn(chats)
           ELSE IF intent = "confirm"
           THEN IF fallback THEN CliReturn(chats)
                ELSE /\ cli' = [pc |-> "scaling", chat |-> cli.chat,
                                active_items |-> cli.active_items,
                                recipe |-> cli.recipe]
                     /\ UNCHANGED chats
           ELSE IF intent = "cancel" THEN CliCancel(feedback)
           ELSE IF revisions > MAX_REVISIONS THEN CliReturn(chats)
           ELSE /\ cli' = [pc |-> "revising", chat |-> cli.chat,
                           active_items |-> cli.active_items,
                           recipe |-> cli.recipe, revisions |-> revisions,
                           feedback |-> feedback]
                /\ UNCHANGED chats
        /\ UNCHANGED <<probe, recognition, scan, creds, db, shoppingList, sessions, heap,
                       opened, req, response>>

\* the loop of run_chef_agent: the revision prompt is sent on the chat
CliRevise(reply) ==
    LET sent == [chats EXCEPT ![cli.chat].revisions = @ + 1]
    IN  /\ cli.pc = "revising"
        /\ IF reply.raised THEN CliReturn(sent)
           ELSE /\ cli' = Asking(cli, reply.recipe, cli.revisions)
                /\ chats' = IF reply.recipe._raw_fallback THEN sent
                            ELSE Gave(sent, cli.chat, reply.recipe)
        /\ UNCHANGED <<probe, recognition, scan, creds, db, shoppingList, sessions, heap,
                       opened, req, response>>

\* the confirm branch of run_chef_agent: the scaling prompt is sent, the recipe to
\* deduct is chosen, consume_recipe_items is entered
CliScale(reply) ==
    LET scaled_recipe == IF reply.raised THEN cli.recipe ELSE reply.recipe
        source_recipe == IF ~scaled_recipe._raw_fallback THEN scaled_recipe
                         ELSE cli.recipe
        used_items == source_recipe.used_fridge_items
        c == IF reply.raised \/ reply.recipe._raw_fallback THEN chats
             ELSE Gave(chats, cli.chat, reply.recipe)
    IN  /\ cli.pc = "scaling"
        /\ IF used_items = <<>> \/ ~creds THEN CliReturn(c)
           ELSE /\ cli' = [pc |-> "consume", chat |-> cli.chat,
                           source_recipe |-> source_recipe,
                           used_items |-> used_items,
                           fridge_by_name |-> DictByName(cli.active_items),
                           idx |-> 1]
                /\ chats' = c
        /\ UNCHANGED <<probe, recognition, scan, creds, db, shoppingList, sessions, heap,
                       opened, req, response>>

\* consume_recipe_items: one iteration of its loop; patchOk and shopOk are whether the
\* store accepts the PATCH and the shopping-list insert
CliConsume(patchOk, shopOk) ==
    LET used == cli.used_items[cli.idx]
        qty_used == ClampUsed(used.quantity_used)
    IN  /\ cli.pc = "consume"
        /\ IF cli.idx = Len(cli.used_items) THEN CliReturn(chats)
           ELSE cli' = [cli EXCEPT !.idx = @ + 1] /\ UNCHANGED chats
        /\ \E db_item \in {_resolve_fridge_item(Strip(used.item_name),
                                                cli.fridge_by_name)} :
            IF db_item = None \/ ~patchOk THEN UNCHANGED <<db, shoppingList>>
            ELSE IF Round3(db_item[1].quantity - qty_used) <= 0
            THEN /\ db' = _patch_fridge_item(db, db_item[1].id,
                                             [status |-> "consumed", quantity |-> 0])
                 /\ shoppingList' =
                        IF shopOk
                        THEN add_to_smart_list(shoppingList, db_item[1].item_name,
                                               db_item[1].id)
                        ELSE shoppingList
            ELSE /\ db' = _patch_fridge_item(
                                db, db_item[1].id,
                                [quantity |-> Round3(db_item[1].quantity - qty_used)])
                 /\ UNCHANGED shoppingList
        /\ UNCHANGED <<probe, recognition, scan, creds, sessions, heap, opened, req, response>>

----------------------------------------------------------------------------
(* The scanner.                                                            *)

\* max_retries of analyze_receipt
max_retries == 3

\* the texts of the exceptions generate_content can raise
Unavailable == <<"U", "N", "A", "V", "A", "I", "L", "A", "B", "L", "E">>

Errors ==
    { <<"5", "0", "3", " ">> \o Unavailable,
      Unavailable,
      <<"5", "0", "3">>,
      <<"1", "5", "0", "3", "2">>,
      <<"u", "n", "a", "v", "a", "i", "l", "a", "b", "l", "e">>,
      <<"4", "2", "9">> }

\* what a call of generate_content gives: the receipt it read, or an exception
Recognitions ==
    {[raised |-> FALSE, text |-> p] : p \in Receipts} \cup
    {[raised |-> TRUE, e |-> m] : m \in Errors}

\* "503" in str(e) or "UNAVAILABLE" in str(e)
Transient(e) == Contains(e, <<"5", "0", "3">>) \/ Contains(e, Unavailable)

\* the retry test giving up after the second attempt
RetryOnce(attempt) == attempt < 1

\* attempt < max_retries - 1
MayRetry(attempt) == attempt < max_retries - 1

\* no run of analyze_receipt is going on
NoAnalysis == [pc |-> "off"]

\* analyze_receipt at the call of its attempt, after the waits of slept
Calling(attempt, slept) == [pc |-> "call", attempt |-> attempt, slept |-> slept]

\* analyze_receipt is called: the loop begins with attempt 0
AnalyzeBegin ==
    /\ recognition.pc \notin {"call", "sleep"}
    /\ recognition' = Calling(0, <<>>)
    /\ UNCHANGED <<probe, scan, creds, db, shoppingList, sessions, heap, chats, opened, req,
                   response, cli>>

\* one attempt of analyze_receipt: the call returns, or its exception is handled
AnalyzeCall(outcome) ==
    LET r == recognition
        Raised(e) == [pc |-> "raised", attempt |-> r.attempt, slept |-> r.slept, e |-> e]
    IN  /\ r.pc = "call"
        /\ recognition' =
                IF ~outcome.raised
                THEN [pc |-> "returned", attempt |-> r.attempt, slept |-> r.slept,
                      text |-> outcome.text]
                ELSE IF Transient(outcome.e)
                THEN IF MayRetry(r.attempt)
                     THEN [pc |-> "sleep", attempt |-> r.attempt, slept |-> r.slept,
                           wait_time |-> 2 ^ r.attempt, e |-> outcome.e]
                     ELSE Raised(outcome.e)
                ELSE Raised(outcome.e)
        /\ UNCHANGED <<probe, scan, creds, db, shoppingList, sessions, heap, chats, opened, req,
                       response, cli>>

\* time.sleep(wait_time) is over: the loop goes on with the next attempt
AnalyzeWake ==
    /\ recognition.pc = "sleep"
    /\ recognition' = Calling(recognition.attempt + 1,
                              Append(recognition.slept, recognition.wait_time))
    /\ UNCHANGED <<probe, scan, creds, db, shoppingList, sessions, heap, chats, opened, req,
                   response, cli>>

\* scanner.py's main: the text analyze_receipt returned is parsed and saved
SaveRecognized ==
    /\ recognition.pc = "returned"
    /\ save_to_db(recognition.text)
    /\ recognition' = NoAnalysis
    /\ UNCHANGED probe

\* scanner.py run on a receipt
Ingest(receipt) == save_to_db(receipt) /\ UNCHANGED <<recognition, probe>>

\* the thresholds find_best_match is called with
Thresholds == {55, ConsumeCutoff, IngestThreshold, 100}

\* find_best_match was not called by itself yet
NoProbe == [target_name |-> <<>>, active_items_dict |-> <<>>, threshold |-> 0,
            match |-> None]

\* find_best_match(target_name, active_items_dict, threshold) called by itself on the
\* active rows of the table
Probe(target_name, threshold) ==
    \E active_items_dict \in {DictByName(get_active_items(db))} :
        /\ probe' = [target_name |-> target_name,
                     active_items_dict |-> active_items_dict,
                     threshold |-> threshold,
                     match |-> find_best_match(target_name, active_items_dict, threshold)]
        /\ UNCHANGED <<recognition, scan, creds, db, shoppingList, sessions, heap, chats,
                       opened, req, response, cli>>

----------------------------------------------------------------------------
(* The system: the scanner and the server's threads share the store.       *)

RECURSIVE Stocked(_, _)
\* the table after the first n receipts of a sequence were scanned, the store never failing
Stocked(receipts, n) ==
    IF n = 0 THEN <<>>
    ELSE LET After(rows) == Synced(rows, SyncPlan(rows, receipts[n]), "none")
         IN  After(Stocked(receipts, n - 1))

\* the inventories the server can be started on
Inventories ==
    { Stocked(<<>>, 0),
      Stocked(<<FirstReceipt>>, 1),
      Stocked(<<FirstReceipt, LaterReceipt>>, 2) }

InitServer(inventories) ==
    /\ creds \in BOOLEAN
    /\ db \in inventories
    /\ shoppingList = EmptyBag
    /\ sessions = <<>>
    /\ heap = <<>>
    /\ chats = <<>>
    /\ opened = 0
    /\ req = [t \in Threads |-> Idle]
    /\ response = 0
    /\ cli = Off
    /\ scan = NoScan
    /\ recognition = NoAnalysis
    /\ probe = NoProbe

Server(T, U, cap) ==
    \E t \in T :
        \/ GenerateFetch(t, U)
        \/ \E reply \in Replies : GenerateCall(t, reply)
        \/ \E reply \in Replies : GenerateScale(t, reply)
        \/ \E u \in U : ReviseBegin(t, u, cap)
        \/ \E reply \in Replies : ReviseCall(t, reply)
        \/ \E u \in U : ConfirmBegin(t, u)
        \/ ConfirmResolve(t)
        \/ \E patchOk \in BOOLEAN : ConfirmPatch(t, patchOk)
        \/ \E shopOk \in BOOLEAN : ConfirmShop(t, shopOk)

Scanner == \E receipt \in Receipts : Ingest(receipt)

\* Requests handled one at a time, for two users, on a stocked store.
Init == InitServer(Inventories)

Next == Server({"t1"}, Users, MaxRevShort)

Spec == Init /\ [][Next]_vars

Chef ==
    \/ \E reply \in Replies : CliStart(reply)
    \/ \E typed \in Answers : CliAnswer(typed)
    \/ \E reply \in Replies : CliRevise(reply)
    \/ \E reply \in Replies : CliScale(reply)
    \/ \E patchOk, shopOk \in BOOLEAN : CliConsume(patchOk, shopOk)

\* The command-line chef and one user of the server, whose conversation can go one
\* revision beyond MAX_REVISIONS.
NextChef == Chef \/ Server({"t1"}, {"u1"}, MAX_REVISIONS + 1)

SpecChef == Init /\ [][NextChef]_vars

\* Two requests of one user handled at the same time.
NextRace == Server(Threads, {"u1"}, MaxRevShort)

SpecRace == Init /\ [][NextRace]_vars

\* The scanner and the server on one store, empty at first.
InitStore == InitServer({<<>>})

NextStore == Scanner \/ Server({"t1"}, {"u1"}, MaxRevShort)

SpecStore == InitStore /\ [][NextStore]_vars

\* The scanner alone, on a store empty at first, fed every receipt.
NextScan == \E receipt \in AllReceipts : Ingest(receipt)

SpecScan == InitStore /\ [][NextScan]_vars

\* find_best_match called on the tables the scanner leaves.
NextMatch ==
    \/ \E receipt \in Receipts \cup CarrotReceipts : Ingest(receipt)
    \/ \E target_name \in {Tapuach, Gezer, Halav}, threshold \in Thresholds :
            Probe(target_name, threshold)

SpecMatch == InitStore /\ [][NextMatch]_vars

\* The scanner from the recognition of a receipt to the save; a call of
\* generate_content comes back, and a sleep ends.
NextReceipt ==
    \/ AnalyzeBegin
    \/ \E outcome \in Recognitions : AnalyzeCall(outcome)
    \/ AnalyzeWake
    \/ SaveRecognized

SpecReceipt ==
    /\ InitStore
    /\ [][NextReceipt]_vars
    /\ WF_vars(\E outcome \in Recognitions : AnalyzeCall(outcome))
    /\ WF_vars(AnalyzeWake)

\* the replies of the collaborator on a pantry: a failure, and recipes with exact,
\* close, unknown, zero and negative entries
PantryReplies ==
    {[raised |-> TRUE]} \cup
    {[raised |-> FALSE, recipe |-> d] :
        d \in {Juice} \cup {x \in Drafts : x.recipe_name \in {"salad", "pie"}}}

\* the pantries: both apple rows active, or the older one retired by a restock
PantryInventories ==
    { Stocked(<<LaterReceipt, FirstReceipt>>, 2),
      Stocked(<<FirstReceipt, LaterReceipt>>, 2) }

\* One user and the command-line chef generate and confirm on a pantry.
InitPantry == InitServer(PantryInventories)

NextPantry ==
    \/ GenerateFetch("t1", {"u1"})
    \/ \E reply \in PantryReplies : GenerateCall("t1", reply)
    \/ \E reply \in PantryReplies : GenerateScale("t1", reply)
    \/ ConfirmBegin("t1", "u1")
    \/ ConfirmResolve("t1")
    \/ \E patchOk \in BOOLEAN : ConfirmPatch("t1", patchOk)
    \/ \E shopOk \in BOOLEAN : ConfirmShop("t1", shopOk)
    \/ \E reply \in PantryReplies : CliStart(reply)
    \/ \E typed \in Answers : CliAnswer(typed)
    \/ \E reply \in PantryReplies : CliRevise(reply)
    \/ \E reply \in PantryReplies : CliScale(reply)
    \/ \E patchOk, shopOk \in BOOLEAN : CliConsume(patchOk, shopOk)

SpecPantry == InitPantry /\ [][NextPantry]_vars

\* The command-line chef alone. A run that waits at a prompt is answered, a call on
\* the chat comes back (with a recipe, the fallback container or an exception) and a
\* write to the store comes back: the code sets no timeout on any of them.
SpecCli ==
    /\ Init
    /\ [][Chef]_vars
    /\ WF_vars(\E typed \in Answers : CliAnswer(typed))
    /\ WF_vars(\E reply \in Replies : CliRevise(reply))
    /\ WF_vars(\E reply \in Replies : CliScale(reply))
    /\ WF_vars(\E patchOk, shopOk \in BOOLEAN : CliConsume(patchOk, shopOk))

----------------------------------------------------------------------------
(* The prompt of run_chef_agent alone: a text is typed, read and classified. *)

\* the most words a typed text is made of
MaxWords == 3

\* the words and marks the typed texts are made of
Words ==
    << <<"kaf", "nun_sofit">>, <<"alef", "bet", "lamed">>, <<"lamed", "alef">>,
       <<"tav", "vav", "dalet", "he">>, <<" ">>, <<"Y", "e", "s">>, <<"n">>, <<"o">>,
       <<"b", "y", "e">>, Of >>

RECURSIVE Concat(_, _)
\* the first n of the words ws, joined
Concat(ws, n) == IF n = 0 THEN <<>> ELSE Concat(ws, n - 1) \o Words[ws[n]]

\* what the user can type at the prompt
Texts ==
    UNION {{Concat(ws, n) : ws \in [1..n -> DOMAIN Words]} : n \in 0..MaxWords}

\* run_chef_agent about to call _read_input
Prompt == [pc |-> "prompt"]

\* feedback = _read_input(...)
ReadInput(typed) ==
    /\ cli.pc = "prompt"
    /\ cli' = [pc |-> "read", typed |-> typed, feedback |-> _read_input(typed)]
    /\ UNCHANGED <<probe, recognition, scan, creds, db, shoppingList, sessions, heap, chats,
                   opened, req, response>>

\* intent = _classify_user_intent(feedback)
Classify ==
    /\ cli.pc = "read"
    /\ cli' = [pc |-> "classified", typed |-> cli.typed, feedback |-> cli.feedback,
               intent |-> _classify_user_intent(cli.feedback)]
    /\ UNCHANGED <<probe, recognition, scan, creds, db, shoppingList, sessions, heap, chats,
                   opened, req, response>>

InitIntent ==
    /\ creds \in BOOLEAN
    /\ db = <<>>
    /\ shoppingList = EmptyBag
    /\ sessions = <<>>
    /\ heap = <<>>
    /\ chats = <<>>
    /\ opened = 0
    /\ req = [t \in Threads |-> Idle]
    /\ response = 0
    /\ cli = Prompt
    /\ scan = NoScan
    /\ recognition = NoAnalysis
    /\ probe = NoProbe

NextIntent == (\E typed \in Texts : ReadInput(typed)) \/ Classify

SpecIntent == InitIntent /\ [][NextIntent]_vars

----------------------------------------------------------------------------
(* Properties.                                                             *)

\* where a thread is inside the deduction loop of confirm_recipe
LoopPcs == {"loop", "patch", "shop"}

\* the shopping-list entries that row i gave rise to
EntriesOf(i) ==
    BagCardinality([e \in {x \in BagToSet(shoppingList) : x.row = i} |->
                        CopiesIn(e, shoppingList)])

\* C1: two confirm requests of one user that overlap deduct the recipe's used items at
\* most once: they never both deduct the same item.
C1_DeductedOnce ==
    \A t, x \in Threads :
        (/\ t # x
         /\ req[t].pc \in LoopPcs
         /\ req[x].pc \in LoopPcs
         /\ req[t].user = req[x].user)
        => \A i \in DOMAIN req[t].deducted : \A j \in DOMAIN req[x].deducted :
                req[t].deducted[i].item_name # req[x].deducted[j].item_name

\* C2: a used item that resolves to a snapshot row with quantity_used >= the row's
\* quantity takes the consuming branch: the PATCH, when the store accepts it, sets that
\* row and no other to status consumed and quantity 0 and nothing else is written to
\* the row; then exactly one shopping-list entry with the row's name is posted, and is
\* reported when the store accepts it.  A refused write changes nothing.
C2_FullUseConsumes ==
    [][\A t \in Threads :
        LET r == req[t]
        IN  (/\ r.pc \in {"patch", "shop"}
             /\ req'[t] # r
             /\ r.used_items[r.idx].quantity_used >= r.db_item.quantity)
            => /\ r.remaining_qty <= 0
               /\ r.pc = "patch" =>
                    \/ /\ req'[t].pc = "shop"
                       /\ db'[r.db_item.id].status = "consumed"
                       /\ db'[r.db_item.id].quantity = 0
                       /\ \A i \in DOMAIN db \ {r.db_item.id} : db'[i] = db[i]
                       /\ shoppingList' = shoppingList
                    \/ /\ req'[t].pc = "loop"
                       /\ req'[t].deducted = r.deducted
                       /\ db' = db
                       /\ shoppingList' = shoppingList
               /\ r.pc = "shop" =>
                    /\ req'[t].pc = "loop"
                    /\ db' = db
                    /\ \/ /\ shoppingList' = shoppingList
                          /\ req'[t].shopping = r.shopping
                       \/ /\ BagCardinality(shoppingList') =
                                BagCardinality(shoppingList) + 1
                          /\ \E e \in BagToSet(shoppingList') :
                                /\ e.item_name = r.db_item.item_name
                                /\ CopiesIn(e, shoppingList') =
                                        CopiesIn(e, shoppingList) + 1
                          /\ req'[t].shopping = Append(r.shopping, r.db_item.item_name)
      ]_vars

\* C2, reached: a confirm has used 7.0 of a row that held 3.0006; the row is consumed with
\* quantity 0 and its name is on the shopping list once.
C2_Reached ==
    \E t \in Threads :
        /\ req[t].pc = "loop"
        /\ \E i \in DOMAIN req[t].deducted :
            LET d == req[t].deducted[i]
            IN  /\ d.fully_consumed
                /\ d.quantity_deducted > Unit
                /\ d.quantity_deducted >= d.quantity_before
                /\ \E k \in DOMAIN db :
                    /\ db[k].item_name = d.item_name
                    /\ db[k].status = "consumed"
                    /\ db[k].quantity = 0
                    /\ EntriesOf(k) = 1

\* C3: a used item that resolves to a snapshot row with quantity_used < the row's
\* quantity has only the quantity of that row patched, to the row's quantity minus
\* quantity_used rounded to 3 decimals; the row stays active and no shopping-list
\* entry follows.
C3_PartialUseKeepsRow ==
    [][\A t \in Threads :
        LET r == req[t]
        IN  (/\ r.pc = "patch"
             /\ db' # db
             /\ r.used_items[r.idx].quantity_used < r.db_item.quantity)
            => /\ req'[t].pc = "loop"
               /\ db' = [db EXCEPT ![r.db_item.id].quantity =
                            Round3(r.db_item.quantity
                                   - r.used_items[r.idx].quantity_used)]
      ]_vars

\* C4: every row has quantity >= 0 and every consumed row has quantity 0.
C4_QuantityInvariant ==
    \A i \in DOMAIN db :
        /\ db[i].quantity >= 0
        /\ db[i].status = "consumed" => db[i].quantity = 0

\* C5: no row gives rise to more than one shopping-list entry, and a row that gave
\* rise to one was brought to zero by cooking: it is consumed with quantity 0.
C5_OneEntryPerRow ==
    \A i \in DOMAIN db :
        /\ EntriesOf(i) <= 1
        /\ EntriesOf(i) = 1 => db[i].status = "consumed" /\ db[i].quantity = 0

\* C6: no chat is ever sent more than MAX_REVISIONS revision prompts.
C6_RevisionCap == \A c \in DOMAIN chats : chats[c].revisions <= MAX_REVISIONS

\* the last well-formed recipe chat c gave, in the histories h
Latest(h, c) == h[c].latest[1]

\* C7: on a conversation that was sent at most MAX_REVISIONS revision prompts, a
\* confirm is not refused for the session, the credentials or the used items when the
\* session exists, the credentials are set and the latest draft uses items; and the
\* deduction loop, of the server and of the command-line chef alike, is given the used
\* items of the latest well-formed draft of the conversation.
C7_ConfirmUsesLatest ==
    [][/\ \A t \in Threads : \A u \in DOMAIN sessions :
            LET c == heap[sessions[u]].chat
            IN  (/\ req[t].pc = "idle"
                 /\ cli' = cli
                 /\ chats[c].revisions <= MAX_REVISIONS)
                => /\ (req'[t].pc = "loop" /\ req'[t].user = u)
                        => req'[t].used_items = Latest(chats, c).used_fridge_items
                   /\ (/\ req'[t].pc = "idle"
                       /\ creds
                       /\ Latest(chats, c).used_fridge_items # <<>>)
                        => response' \notin {404, 422, 500}
       /\ (cli.pc = "scaling" /\ cli'.pc = "consume")
            => cli'.used_items = Latest(chats', cli.chat).used_fridge_items
      ]_vars

\* C7, reached: the server's deduction loop runs on the latest draft of a conversation
\* that was sent MAX_REVISIONS revision prompts.
C7_Reached ==
    \E t \in Threads :
        /\ req[t].pc = "loop"
        /\ req[t].user \in DOMAIN sessions
        /\ LET c == heap[sessions[req[t].user]].chat
           IN  /\ chats[c].revisions = MAX_REVISIONS
               /\ req[t].used_items = Latest(chats, c).used_fridge_items

\* no session, no request in its deduction loop and no run of consume_recipe_items
\* holds a fallback draft as the recipe to deduct
NoFallbackHeld ==
    /\ \A x \in DOMAIN heap : ~heap[x].recipe._raw_fallback
    /\ \A t \in Threads : req[t].pc \in LoopPcs => ~req[t].recipe._raw_fallback
    /\ cli.pc = "consume" => ~cli.source_recipe._raw_fallback

\* C8: no deduction is made from a fallback draft: none is ever held as the recipe to
\* deduct; the command-line chef showing one goes on to a revision prompt or returns,
\* writing nothing to the store; and after the scaling call, whatever its reply, the
\* recipe deducted (command line) or stored (server) is the last well-formed draft.
C8_NoFallbackDeduction ==
    [][/\ NoFallbackHeld'
       /\ (cli.pc = "ask" /\ cli.recipe._raw_fallback /\ cli' # cli)
            => /\ cli'.pc \in {"revising", "off"}
               /\ db' = db
               /\ shoppingList' = shoppingList
       /\ (cli.pc = "scaling" /\ cli'.pc = "consume")
            => cli'.source_recipe = Latest(chats', cli.chat)
       /\ \A t \in Threads :
            (req[t].pc = "scale" /\ req'[t].pc = "idle")
            => heap'[sessions'[req[t].user]].recipe = Latest(chats', req[t].chat)
      ]_vars

\* C8, reached: the command-line chef was given a fallback draft and is sending a
\* revision prompt.
C8_Reached == cli.pc = "revising" /\ cli.recipe._raw_fallback

C10_OneSessionPerUser ==
    [][/\ \A u, v \in DOMAIN sessions' : u # v => sessions'[u] # sessions'[v]
       /\ Quiet' => DOMAIN heap' = {sessions'[u] : u \in DOMAIN sessions'}
       /\ \A t \in Threads :
            (req[t].pc \in {"generate", "scale"} /\ req'[t].pc = "idle"
                /\ response' = 200)
            => LET u == req[t].user
               IN  /\ u \in DOMAIN sessions'
                   /\ DOMAIN heap'[sessions'[u]] = {"chat", "active_items", "recipe"}
                   /\ heap'[sessions'[u]].chat = req[t].chat
                   /\ heap'[sessions'[u]].active_items = req[t].active_items
                   /\ heap'[sessions'[u]].recipe = Latest(chats', req[t].chat)
                   /\ u \in DOMAIN sessions =>
                        /\ sessions'[u] # sessions[u]
                        /\ sessions[u] \notin DOMAIN heap'
      ]_vars

\* C10, reached: a second generate request has replaced a session: the only session
\* object is the one of the second chat opened.
C10_Reached ==
    /\ Quiet
    /\ response = 200
    /\ DOMAIN sessions = {"u1"}
    /\ sessions["u1"] = 2
    /\ DOMAIN heap = {2}

\* C11: a generate request that fails, with 409 on an empty active inventory or with
\* 502 when the generative call raises or gives the fallback container, creates no
\* session, writes nothing to the inventory or the shopping list and leaves every
\* session object as it was; on the 409 no chat is opened and nothing is sent; and a
\* chat is only ever opened, by the server or the command-line chef, when the active
\* food inventory is not empty.
C11_FailedGenerateKeepsState ==
    [][/\ opened' # opened => get_all_active_items(db, creds, TRUE) # <<>>
       /\ \A t \in Threads :
            LET empty == response # 409 /\ response' = 409
                refused == /\ req[t].pc = "generate"
                           /\ req'[t].pc = "idle"
                           /\ response' = 502
            IN  (empty \/ refused) =>
                    /\ sessions' = sessions
                    /\ db' = db
                    /\ shoppingList' = shoppingList
                    /\ \A u \in DOMAIN sessions : heap'[sessions[u]] = heap[sessions[u]]
                    /\ empty => chats' = chats /\ opened' = opened
      ]_vars

\* C11, reached: a generate request of a user who has a session was refused with 502
\* (no revision was ever sent, so the 502 is not one of revise), and the session is there.
C11_Reached ==
    /\ Quiet
    /\ response = 502
    /\ "u1" \in DOMAIN sessions
    /\ opened >= 2
    /\ \A c \in DOMAIN chats : chats[c].revisions = 0

\* the trimmed, lower-cased text holds a keyword of the set kws
HasKeyword(text, kws) == \E kw \in kws : Contains(Lower(Strip(text)), kw)

\* the trimmed, lower-cased text is a bare cancellation token or holds a cancellation phrase
Cancels(text) ==
    \/ Lower(Strip(text)) \in _CANCEL_EXACT
    \/ HasKeyword(text, _CANCEL_PHRASES)

\* C12: every text that holds at least one affirmative keyword and at least one change
\* keyword is classified revise.
C12_MixedIsRevise ==
    (/\ cli.pc = "classified"
     /\ HasKeyword(cli.typed, _AFFIRM_KEYWORDS)
     /\ HasKeyword(cli.typed, _CHANGE_KEYWORDS))
    => cli.intent = "revise"

\* C12, amended: a text that holds at least one affirmative keyword and at least one
\* change keyword is never classified confirm: it is classified cancel when it is a
\* bare cancellation token or holds a cancellation phrase, and revise otherwise.
C12_MixedIsNeverConfirm ==
    (/\ cli.pc = "classified"
     /\ HasKeyword(cli.typed, _AFFIRM_KEYWORDS)
     /\ HasKeyword(cli.typed, _CHANGE_KEYWORDS))
    => /\ cli.intent # "confirm"
       /\ cli.intent = (IF Cancels(cli.typed) THEN "cancel" ELSE "revise")

\* C12, reached: "yes but" in Hebrew, typed with a space in front, was classified revise.
C12_Reached ==
    /\ cli.pc = "classified"
    /\ cli.typed = <<" ", "kaf", "nun_sofit", "alef", "bet", "lamed">>
    /\ cli.intent = "revise"

\* C13: the classifier gives one of cancel, confirm and revise for every text: cancel
\* exactly when the trimmed, lower-cased text is a bare cancellation token or holds a
\* cancellation phrase, whatever else it holds; confirm exactly when it is no such
\* text, holds an affirmative keyword and holds no change keyword; revise in every
\* other case, the empty text included.
C13_DecisionList ==
    cli.pc = "classified" =>
        /\ cli.intent \in {"cancel", "confirm", "revise"}
        /\ cli.intent = "cancel" <=> Cancels(cli.typed)
        /\ cli.intent = "confirm" <=>
                /\ ~Cancels(cli.typed)
                /\ HasKeyword(cli.typed, _AFFIRM_KEYWORDS)
                /\ ~HasKeyword(cli.typed, _CHANGE_KEYWORDS)
        /\ Strip(cli.typed) = <<>> => cli.intent = "revise"

\* C13, reached: "no thanks" in Hebrew, which holds the affirmative keyword "thanks"
\* and is a cancellation phrase, was classified cancel.
C13_Reached ==
    /\ cli.pc = "classified"
    /\ cli.typed = <<"lamed", "alef", " ", "tav", "vav", "dalet", "he">>
    /\ HasKeyword(cli.typed, _AFFIRM_KEYWORDS)
    /\ cli.intent = "cancel"

\* the active row of the table rows that the scanner matches item with, if any
Matched(rows, item) ==
    find_best_match(item.item_name, DictByName(get_active_items(rows)), IngestThreshold)

\* candidate k of receipt p matches an active row bought on the receipt's date
IsDuplicate(rows, p, k) ==
    LET Same(m) == m # None /\ rows[m[1].id].purchase_date = p.receipt_date
    IN  Same(Matched(rows, p.items[k]))

\* candidate k of receipt p matches an active row bought before the receipt's date
IsRestock(rows, p, k) ==
    LET Older(m) == m # None /\ rows[m[1].id].purchase_date < p.receipt_date
    IN  Older(Matched(rows, p.items[k]))

\* how many of the first k candidates of p are not duplicates, and how many are restocks
KeptUpTo(rows, p, k) == Cardinality({j \in 1..k : ~IsDuplicate(rows, p, j)})

RestocksUpTo(rows, p, k) == Cardinality({j \in 1..k : IsRestock(rows, p, j)})

\* the step is a run of save_to_db that got the active items
Ingested == scan' # scan /\ scan'.fail # "fetch"

\* C14: a candidate that matches an active row bought before the receipt's date gives
\* exactly one retirement, the id of the matched row, and exactly one insert, an active
\* row with the candidate's name dated with the receipt's date: the lists hold one
\* entry per such candidate and no more; and when the store accepts both writes the
\* matched row is consumed and the new rows are the table's last rows.
C14_RestockRetiresAndInserts ==
    [][Ingested =>
        LET p == scan'.parsed_data
            n == Len(p.items)
        IN  /\ Len(scan'.items_to_insert) = KeptUpTo(db, p, n)
            /\ Len(scan'.old_items_to_mark_consumed) = RestocksUpTo(db, p, n)
            /\ \A k \in 1..n :
                    IsRestock(db, p, k) =>
                        LET old == Matched(db, p.items[k])[1].id
                            new == scan'.items_to_insert[KeptUpTo(db, p, k)]
                        IN  /\ scan'.old_items_to_mark_consumed[RestocksUpTo(db, p, k)] = old
                            /\ new.item_name = p.items[k].item_name
                            /\ new.purchase_date = p.receipt_date
                            /\ new.status = "active"
                            /\ scan'.fail = "none" =>
                                    /\ db'[old].status = "consumed"
                                    /\ Len(db') = Len(db) + KeptUpTo(db, p, n)
                                    /\ db'[Len(db) + KeptUpTo(db, p, k)] = new
      ]_vars

\* C14, reached: the receipt of day 2 was scanned after the one of day 1: one row was
\* retired and is consumed, one row was inserted and is the active last row.
C14_Reached ==
    /\ scan.parsed_data = LaterReceipt
    /\ scan.fail = "none"
    /\ Len(scan.old_items_to_mark_consumed) = 1
    /\ Len(scan.items_to_insert) = 1
    /\ db[scan.old_items_to_mark_consumed[1]].status = "consumed"
    /\ db[Len(db)] = scan.items_to_insert[1]

\* C15: a candidate that matches an active row bought on the receipt's date is dropped:
\* no row with its name is inserted, the matched row is not in the retirement list, it
\* is counted as skipped, and the matched row is still active after the run.
C15_DuplicateIsDropped ==
    [][Ingested =>
        LET p == scan'.parsed_data
            n == Len(p.items)
        IN  /\ scan'.skipped_duplicates = n - KeptUpTo(db, p, n)
            /\ \A k \in 1..n :
                    IsDuplicate(db, p, k) =>
                        LET old == Matched(db, p.items[k])[1].id
                        IN  /\ \A i \in DOMAIN scan'.items_to_insert :
                                    scan'.items_to_insert[i].item_name # p.items[k].item_name
                            /\ old \notin Range(scan'.old_items_to_mark_consumed)
                            /\ db'[old] = db[old]
      ]_vars

\* C15, reached: the receipt of day 1 was scanned again: both its items were skipped,
\* nothing was inserted or retired.
C15_Reached ==
    /\ scan.parsed_data = FirstReceipt
    /\ scan.fail = "none"
    /\ scan.skipped_duplicates = 2
    /\ scan.items_to_insert = <<>>
    /\ scan.old_items_to_mark_consumed = <<>>
    /\ \E i \in DOMAIN db : db[i].status = "active" /\ db[i].purchase_date = 1

\* C16: of candidates with one name and one date at most one gives an insert, in one
\* receipt as in successive runs: the rows to insert with a name, together with the
\* rows of that name already in the table with the receipt's date, are at most one,
\* and a candidate that repeats a name of its receipt retires nothing.
C16_NoDoubleInsert ==
    [][Ingested =>
        LET p == scan'.parsed_data
            new == scan'.items_to_insert
        IN  /\ \A i \in DOMAIN new :
                    Cardinality({j \in DOMAIN new : new[j].item_name = new[i].item_name})
                    + Cardinality({j \in DOMAIN db :
                                    /\ db[j].item_name = new[i].item_name
                                    /\ db[j].purchase_date = p.receipt_date}) <= 1
            /\ \A j, k \in DOMAIN p.items :
                    (j < k /\ p.items[j].item_name = p.items[k].item_name)
                    => ~IsRestock(db, p, k)
      ]_vars

\* C17: no row is inserted for a candidate whose shelf life is zero, negative or
\* missing, and such a candidate retires nothing: every row to insert expires after
\* the day it was bought.
C17_NoShelfLifeNoRow ==
    [][Ingested =>
        LET p == scan'.parsed_data
            new == scan'.items_to_insert
        IN  /\ \A i \in DOMAIN new : new[i].expiry_date > new[i].purchase_date
            /\ \A k \in DOMAIN p.items :
                    ExpiryDays(p.items[k]) <= 0 => ~IsRestock(db, p, k)
      ]_vars

\* C18: in confirm an item that resolves to no snapshot row, or whose PATCH or
\* shopping-list insert the store refuses, is skipped and the loop goes on with the next
\* item: the items are visited one by one in list order, the store is written only for
\* an item that resolved, what was reported as deducted stays reported, the request
\* returns only after the last item, and then with 200; consume_recipe_items of the
\* command-line chef visits every item in the same way.
C18_BatchGoesOn ==
    [][/\ \A t \in Threads :
            LET r == req[t]
                q == req'[t]
                Unresolved == _resolve_fridge_item(Strip(r.used_items[r.idx].item_name),
                                                   r.fridge_by_name) = None
            IN  (r.pc \in LoopPcs /\ q # r) =>
                    /\ q.pc = "idle" =>
                            /\ r.pc = "loop"
                            /\ r.idx = Len(r.used_items) + 1
                            /\ response' = 200
                    /\ q.pc # "idle" =>
                            /\ q.pc \in LoopPcs
                            /\ q.used_items = r.used_items
                            /\ q.fridge_by_name = r.fridge_by_name
                            /\ q.idx = (IF q.pc = "loop" THEN r.idx + 1 ELSE r.idx)
                            /\ SubSeq(q.deducted, 1, Len(r.deducted)) = r.deducted
                            /\ r.pc = "loop" =>
                                    /\ db' = db
                                    /\ q.pc = (IF Unresolved THEN "loop" ELSE "patch")
                            /\ (r.pc = "patch" /\ db' # db) =>
                                    /\ \A i \in DOMAIN db : i # r.db_item.id => db'[i] = db[i]
                                    /\ q.pc = "loop" => Len(q.deducted) = Len(r.deducted) + 1
       /\ (cli.pc = "consume" /\ cli' # cli) =>
            IF cli.idx = Len(cli.used_items) THEN cli' = Off
            ELSE cli' = [cli EXCEPT !.idx = cli.idx + 1]
      ]_vars

\* C18, reached: confirm is past the last item of the pie; milk, its first item, resolved
\* to no snapshot row and the apples, its second item, were deducted.
C18_Reached ==
    \E t \in Threads :
        /\ req[t].pc = "loop"
        /\ req[t].recipe.recipe_name = "pie"
        /\ req[t].idx = 3
        /\ _resolve_fridge_item(req[t].used_items[1].item_name, req[t].fridge_by_name) = None
        /\ Len(req[t].deducted) = 1
        /\ \E i \in DOMAIN db : db[i].status = "consumed" /\ db[i].quantity = 0

\* C19: confirm works on the snapshot of the session and fetches nothing: the snapshot
\* of a session is the list generate fetched, no step (revise included) changes the
\* snapshot of a session object, the loop of confirm resolves names in that snapshot,
\* and the row it patches and the quantity it subtracts from are the id and the
\* quantity of the snapshot item, whatever the table holds by then.
C19_ConfirmUsesSnapshot ==
    [][/\ \A o \in DOMAIN heap \cap DOMAIN heap' :
            heap'[o].active_items = heap[o].active_items
       /\ \A t \in Threads :
            LET r == req[t]
                q == req'[t]
            IN  /\ (r.pc = "idle" /\ q.pc = "generate") =>
                        q.active_items = get_all_active_items(db, creds, TRUE)
                /\ (r.pc \in {"generate", "scale"} /\ q.pc = "idle" /\ response' = 200) =>
                        heap'[sessions'[r.user]].active_items = r.active_items
                /\ (r.pc = "idle" /\ q.pc = "loop") =>
                        q.fridge_by_name = DictByName(heap[sessions[q.user]].active_items)
                /\ (r.pc = "loop" /\ q.pc = "patch") =>
                        /\ q.db_item \in Range(heap[sessions[r.user]].active_items)
                        /\ q.remaining_qty = Round3(q.db_item.quantity - q.qty_used)
                /\ (r.pc = "patch" /\ db' # db) =>
                        /\ \A i \in DOMAIN db : i # r.db_item.id => db'[i] = db[i]
                        /\ db'[r.db_item.id].quantity = Max(r.remaining_qty, 0)
      ]_vars

\* C19, reached: confirm has resolved a used item to a snapshot item whose quantity is
\* no longer the quantity of the row in the table.
C19_Reached ==
    \E t \in Threads :
        /\ req[t].pc = "patch"
        /\ db[req[t].db_item.id].status = "active"
        /\ db[req[t].db_item.id].quantity # req[t].db_item.quantity

\* C20: the cancel branch of the command-line loop is taken at the prompt and returns:
\* the step writes nothing to the inventory or the shopping list, opens no chat and
\* sends nothing, and the run's chat is dropped; and a text classified cancel never
\* leads to the revision call or to the scaling call.
C20_CancelEndsQuietly ==
    [][/\ (cli' = Cancelled /\ cli # Cancelled) =>
            /\ cli.pc = "ask"
            /\ db' = db
            /\ shoppingList' = shoppingList
            /\ opened' = opened
            /\ cli.chat \notin DOMAIN chats'
            /\ \A c \in DOMAIN chats' : c \in DOMAIN chats /\ chats'[c] = chats[c]
       /\ (cli.pc = "ask" /\ ~cli.recipe._raw_fallback /\ cli'.pc = "revising") =>
            _classify_user_intent(cli'.feedback) = "revise"
       /\ (cli.pc = "ask" /\ cli'.pc \notin {"ask", "off"}) => chats' = chats
      ]_vars

\* C20, reached: a run of the command-line chef on a stocked store has returned from
\* its cancel branch; nothing was written.
C20_Reached ==
    /\ cli = Cancelled
    /\ opened >= 1
    /\ db # <<>>
    /\ \A i \in DOMAIN db : db[i].status = "active"
    /\ shoppingList = EmptyBag

\* C21: a revise request whose call raises or gives the fallback container ends with
\* 502 and leaves the sessions, the recipe and the snapshot of each session object, the
\* inventory and the shopping list as they were; and the loop of a confirm request
\* works on the recipe the session holds, the last one that was stored.
C21_FailedReviseKeepsDraft ==
    [][\A t \in Threads :
            LET r == req[t]
                q == req'[t]
            IN  /\ (r.pc = "revise" /\ q.pc = "idle" /\ response' = 502) =>
                        /\ sessions' = sessions
                        /\ \A u \in DOMAIN sessions :
                                heap'[sessions[u]] = heap[sessions[u]]
                        /\ db' = db
                        /\ shoppingList' = shoppingList
                /\ (r.pc = "idle" /\ q.pc = "loop") =>
                        /\ q.recipe = heap[sessions[q.user]].recipe
                        /\ q.used_items = heap[sessions[q.user]].recipe.used_fridge_items
      ]_vars

\* C21, reached: after the only generate request and a revise request refused with 502,
\* a confirm request is in its loop, on the draft the generate request stored.
C21_Reached ==
    \E t \in Threads :
        /\ req[t].pc = "loop"
        /\ response = 502
        /\ opened = 1
        /\ \E c \in DOMAIN chats : chats[c].revisions = 1
        /\ req[t].recipe = heap[sessions[req[t].user]].recipe

\* C22: a revise request that succeeds leaves in the session the whole recipe the
\* revision call gave, and the session's chat, its snapshot, the inventory and the
\* shopping list are as before; the same holds of a revision in the command-line loop.
C22_ReviseReplacesDraft ==
    [][/\ \A t \in Threads :
            LET r == req[t]
            IN  (r.pc = "revise" /\ req'[t].pc = "idle" /\ response' = 200) =>
                    /\ sessions'[r.user] = r.session
                    /\ heap'[r.session].chat = heap[r.session].chat
                    /\ heap'[r.session].active_items = heap[r.session].active_items
                    /\ chats'[heap[r.session].chat].revisions =
                            chats[heap[r.session].chat].revisions + 1
                    /\ heap'[r.session].recipe = Latest(chats', heap[r.session].chat)
                    /\ db' = db
                    /\ shoppingList' = shoppingList
       /\ (cli.pc = "revising" /\ cli'.pc = "ask") =>
            /\ cli'.chat = cli.chat
            /\ cli'.active_items = cli.active_items
            /\ ~cli'.recipe._raw_fallback => cli'.recipe = Latest(chats', cli.chat)
            /\ db' = db
            /\ shoppingList' = shoppingList
      ]_vars

\* C22, reached: the only revise request on the only conversation has succeeded; the
\* session holds the revised recipe.
C22_Reached ==
    /\ Quiet
    /\ cli.pc = "off"
    /\ response = 200
    /\ opened = 1
    /\ "u1" \in DOMAIN sessions
    /\ chats[heap[sessions["u1"]].chat].revisions = 1
    /\ heap[sessions["u1"]].recipe = Latest(chats, heap[sessions["u1"]].chat)
    /\ heap[sessions["u1"]].recipe.recipe_name = "pie"

\* C23: a revise or confirm request goes on to its generative call or to its loop only
\* for a user who has a session; the request answered 404 ends in the step it began
\* in, and sends nothing on any chat, opens none, writes nothing to the inventory or
\* the shopping list, and creates or changes no session.
C23_NoSessionNoEffect ==
    [][/\ \A t \in Threads :
            (req[t].pc = "idle" /\ req'[t].pc \in {"revise", "loop"}) =>
                /\ req'[t].user \in DOMAIN sessions
                /\ response' = response
       /\ (response # 404 /\ response' = 404) =>
            /\ Quiet
            /\ req' = req
            /\ sessions' = sessions
            /\ heap' = heap
            /\ chats' = chats
            /\ opened' = opened
            /\ db' = db
            /\ shoppingList' = shoppingList
      ]_vars

\* C23, reached: a request of a user without a session was answered 404 while another
\* user holds a session on a stocked store; nothing was sent or written.
C23_Reached ==
    /\ response = 404
    /\ Quiet
    /\ DOMAIN sessions = {"u1"}
    /\ \A c \in DOMAIN chats : chats[c].revisions = 0
    /\ Len(heap[sessions["u1"]].active_items) = Len(db)
    /\ \A i \in DOMAIN db : db[i].status = "active"
    /\ shoppingList = EmptyBag

\* the snapshot item of the row with this id, in a dictionary keyed by name
SnapshotOf(by_name, id) == by_name[CHOOSE n \in DOMAIN by_name : by_name[n].id = id]

\* the rows a step has written
Written == {i \in DOMAIN db : db'[i] # db[i]}

\* C24, as stated: every row whose patch succeeds is consumed or holds a quantity lower
\* than the snapshot quantity by at least 1.
C24_LowerByOne ==
    [][/\ \A t \in Threads :
            (req[t].pc = "patch" /\ db' # db) =>
                \A i \in Written :
                    \/ db'[i].status = "consumed"
                    \/ db'[i].quantity <= req[t].db_item.quantity - Unit
       /\ cli.pc = "consume" =>
            \A i \in Written :
                \/ db'[i].status = "consumed"
                \/ db'[i].quantity <= SnapshotOf(cli.fridge_by_name, i).quantity - Unit
      ]_vars

\* C24: the quantity subtracted is the larger of 1 and quantity_used, and the
\* remainder is rounded to 3 decimals: every row whose patch succeeds is consumed or
\* holds a quantity lower than the snapshot quantity by more than 0.999, so a zero,
\* negative or below-1 quantity_used never leaves the row at its snapshot quantity.
C24_ClampedDeduction ==
    [][/\ \A t \in Threads :
            LET r == req[t]
                q == req'[t]
            IN  /\ (r.pc = "loop" /\ q.pc = "patch") =>
                        /\ q.qty_used >= Unit
                        /\ q.qty_used >= r.used_items[r.idx].quantity_used
                        /\ q.qty_used \in {Unit, r.used_items[r.idx].quantity_used}
                        /\ q.remaining_qty = Round3(q.db_item.quantity - q.qty_used)
                /\ (r.pc = "patch" /\ (q.pc = "shop" \/ Len(q.deducted) > Len(r.deducted))) =>
                        \/ db'[r.db_item.id].status = "consumed"
                        \/ db'[r.db_item.id].quantity <
                                r.db_item.quantity - Unit + Milli
       /\ cli.pc = "consume" =>
            \A i \in Written :
                \/ db'[i].status = "consumed"
                \/ db'[i].quantity <
                        SnapshotOf(cli.fridge_by_name, i).quantity - Unit + Milli
      ]_vars

\* C24, reached: a confirm has patched a row for an entry whose quantity_used is zero;
\* the row lost 1, up to the rounding.
C24_Reached ==
    \E t \in Threads :
        /\ req[t].pc = "loop"
        /\ req[t].idx = 2
        /\ req[t].used_items[1].quantity_used = 0
        /\ Len(req[t].deducted) = 1
        /\ req[t].deducted[1].quantity_deducted = Unit
        /\ ~req[t].deducted[1].fully_consumed
        /\ \E i \in DOMAIN db :
                /\ db[i].status = "active"
                /\ db[i].quantity = req[t].deducted[1].quantity_after
                /\ db[i].quantity > req[t].deducted[1].quantity_before - Unit

\* the generate request of thread t ends in this step with its session stored
StoredBy(t) ==
    /\ req'[t].pc = "idle"
    /\ req[t].user \in DOMAIN sessions'
    /\ sessions'[req[t].user] = req[t].chat

\* C25: after its generation call a generate request makes the scaling call, on the
\* same chat, exactly when the guest count is above 1, and that call is its last one;
\* the request ends with 200 whatever the scaling call gives, and its session holds
\* the scaled recipe, or the unscaled one when the call raised or gave the fallback
\* container. The command-line chef, which scales when the user confirms, deducts
\* the unscaled recipe in that case.
C25_ScalingIsOptional ==
    [][/\ \A t \in Threads :
            LET r == req[t]
                q == req'[t]
            IN  /\ q.pc = "scale" =>
                        /\ r.pc \in {"generate", "scale"}
                        /\ r.pc = "generate" =>
                                /\ r.guests > 1
                                /\ q.chat = r.chat
                                /\ q.recipe = Latest(chats', r.chat)
                /\ (r.pc = "generate" /\ StoredBy(t)) => r.guests = 1
                /\ (r.pc = "generate" /\ r.guests > 1 /\ q.pc = "idle") => response' = 502
                /\ r.pc = "scale" =>
                        /\ StoredBy(t)
                        /\ response' = 200
                        /\ ~heap'[r.chat].recipe._raw_fallback
                        /\ heap'[r.chat].recipe = Latest(chats', r.chat)
                        /\ chats'[r.chat] = chats[r.chat] => heap'[r.chat].recipe = r.recipe
                        /\ chats'[r.chat].revisions = chats[r.chat].revisions
       /\ (cli.pc = "scaling" /\ cli'.pc = "consume") =>
            /\ ~cli'.source_recipe._raw_fallback
            /\ chats'[cli.chat] = chats[cli.chat] => cli'.source_recipe = cli.recipe
      ]_vars

\* C25, reached: a generate request for two guests has its unscaled draft and is
\* about to make the scaling call.
C25_Reached ==
    \E t \in Threads :
        /\ req[t].pc = "scale"
        /\ req[t].guests = 2
        /\ req[t].recipe = Latest(chats, req[t].chat)
        /\ req[t].user \notin DOMAIN sessions

\* C26: analyze_receipt makes at most max_retries calls and ends. An attempt that
\* succeeds returns its text at once; a transient failure of the first or the second
\* attempt is followed by a sleep of 1 s, respectively 2 s, and by the next attempt;
\* a transient failure of the third attempt, and any other failure of any attempt, is
\* raised at once; and a run that is calling or sleeping comes to return or to raise.
C26_BoundedRetry ==
    /\ [][LET r == recognition
              q == recognition'
          IN  /\ q.pc \in {"call", "sleep", "returned", "raised"} =>
                    /\ q.attempt < max_retries
                    /\ Len(q.slept) = q.attempt
              /\ r.pc = "call" =>
                    /\ q.pc \in {"returned", "sleep", "raised"}
                    /\ q.attempt = r.attempt
                    /\ q.slept = r.slept
                    /\ q.pc = "sleep" =>
                            /\ Transient(q.e)
                            /\ r.attempt \in {0, 1}
                            /\ q.wait_time = IF r.attempt = 0 THEN 1 ELSE 2
                    /\ q.pc = "raised" => (~Transient(q.e) \/ r.attempt = 2)
                    /\ q.pc = "returned" => q.text \in Receipts
              /\ r.pc = "sleep" =>
                    q = Calling(r.attempt + 1, Append(r.slept, r.wait_time))
              /\ r.pc \in {"returned", "raised", "off"} =>
                    q \in {r, NoAnalysis, Calling(0, <<>>)}
         ]_vars
    /\ (recognition.pc \in {"call", "sleep"}) ~> (recognition.pc \in {"returned", "raised"})

\* C26, reached: the third attempt succeeded, after sleeps of 1 s and 2 s.
C26_Reached ==
    /\ recognition.pc = "returned"
    /\ recognition.attempt = 2
    /\ recognition.slept = <<1, 2>>
    /\ db # <<>>

\* C27: of two calls of find_best_match with one target and one dictionary, when the
\* call with the lower threshold finds nothing so does the call with the higher one,
\* and what the call with the higher threshold returns the other call returns too.
C27_ThresholdMonotonic ==
    [][(/\ probe'.target_name = probe.target_name
        /\ probe'.active_items_dict = probe.active_items_dict) =>
            LET lo == IF probe.threshold <= probe'.threshold THEN probe ELSE probe'
                hi == IF probe.threshold <= probe'.threshold THEN probe' ELSE probe
            IN  /\ lo.match = None => hi.match = None
                /\ hi.match # None => lo.match = hi.match
      ]_vars

\* C27, reached: with two names of the dictionary at or above a threshold lower than
\* the scanner's, the call returned a row.
C27_Reached ==
    /\ probe.match # None
    /\ probe.threshold < IngestThreshold
    /\ Cardinality({n \in DOMAIN probe.active_items_dict :
                        RatioAtLeast(RatioOf(n, probe.target_name), probe.threshold)}) = 2

\* item (a row of the snapshot, or None) is what name stands for in the snapshot: the
\* row of that very name when there is one; if not, the row of a name whose ratio to
\* name is at least 0.70 and which no other name exceeds; None when there is neither
ResolvesTo(name, by_name, item) ==
    LET close == {n \in DOMAIN by_name : RatioAtLeast(RatioOf(n, name), ConsumeCutoff)}
    IN  IF name \in DOMAIN by_name THEN item = <<by_name[name]>>
        ELSE IF close = {} THEN item = None
        ELSE /\ item # None
             /\ item[1].item_name \in close
             /\ item[1] = by_name[item[1].item_name]
             /\ \A n \in close :
                    ~RatioLess(RatioOf(item[1].item_name, name), RatioOf(n, name))

\* C28: each used item of a confirmed recipe is resolved in the snapshot to the row of
\* exactly its name when there is one, whatever close names the snapshot holds;
\* without one, to the row of the closest name of ratio 0.70 or more; and to nothing,
\* the table being left alone, when there is neither. The same holds of the
\* command-line chef.
C28_ExactBeforeFuzzy ==
    [][/\ \A t \in Threads :
            LET r == req[t]
                q == req'[t]
            IN  (r.pc = "loop" /\ q.pc \in {"loop", "patch"}) =>
                    /\ db' = db
                    /\ ResolvesTo(Strip(r.used_items[r.idx].item_name), r.fridge_by_name,
                                  IF q.pc = "patch" THEN <<q.db_item>> ELSE None)
       /\ cli.pc = "consume" =>
            LET name == Strip(cli.used_items[cli.idx].item_name)
            IN  /\ ResolvesTo(name, cli.fridge_by_name, None) => db' = db
                /\ \A i \in Written :
                        ResolvesTo(name, cli.fridge_by_name,
                                   <<SnapshotOf(cli.fridge_by_name, i)>>)
      ]_vars

\* C28, reached: a used item was resolved to the row of its own name in a snapshot that
\* holds a close name too, of a row with another quantity.
C28_Reached ==
    \E t \in Threads :
        /\ req[t].pc = "patch"
        /\ req[t].db_item.item_name = Tapuach
        /\ req[t].used_items[req[t].idx].item_name = Tapuach
        /\ Tapuchim \in DOMAIN req[t].fridge_by_name
        /\ req[t].fridge_by_name[Tapuchim].id # req[t].db_item.id

\* find_best_match for a candidate of a receipt, on the active rows, at a threshold
MatchedAt(rows, item, threshold) ==
    find_best_match(item.item_name, DictByName(get_active_items(rows)), threshold)

\* C29: a run of save_to_db matches its candidates at 0.55 when the newest active row
\* was inserted less than 15 minutes before, and at 0.80 otherwise: it retires one row
\* for each candidate whose match at that threshold was bought before the receipt's
\* date, and skips each candidate whose match was bought on that date.
C29_AdaptiveThreshold ==
    [][Ingested =>
        LET p == scan'.parsed_data
            threshold == IF scan'.recent THEN 55 ELSE IngestThreshold
            Older(m) == m # None /\ db[m[1].id].purchase_date < p.receipt_date
            Same(m) == m # None /\ db[m[1].id].purchase_date = p.receipt_date
        IN  /\ Len(scan'.old_items_to_mark_consumed) =
                    Cardinality({k \in DOMAIN p.items :
                                    Older(MatchedAt(db, p.items[k], threshold))})
            /\ scan'.skipped_duplicates =
                    Cardinality({k \in DOMAIN p.items :
                                    Same(MatchedAt(db, p.items[k], threshold))})
      ]_vars

\* the plural and inflectional suffixes of the normalization, the longest first
Suffixes == << <<"yod", "vav", "tav">>, <<"yod", "mem_sofit">>, <<"vav", "tav">> >>

\* the normalization of names section 4.1 of the specification describes: the first
\* suffix the name ends with is stripped when at least 2 characters remain
normalize(name) ==
    LET Ends(k) == /\ Len(name) >= Len(Suffixes[k]) + 2
                   /\ SubSeq(name, Len(name) - Len(Suffixes[k]) + 1, Len(name)) = Suffixes[k]
        found == {k \in DOMAIN Suffixes : Ends(k)}
    IN  IF found = {} THEN name
        ELSE LET k == CHOOSE x \in found : \A y \in found : x <= y
             IN  SubSeq(name, 1, Len(name) - Len(Suffixes[k]))

\* C30: names are compared in their normalized form: a candidate whose normalized name
\* is the normalized name of an active row is matched by save_to_db at its threshold
\* (the similarity of equal names being 1.0), the normalization of a normalized name
\* is that name, and the rows to insert carry the names as the receipt gives them.
C30_NormalizedBeforeSimilarity ==
    [][Ingested =>
        LET p == scan'.parsed_data
        IN  /\ \A k \in DOMAIN p.items :
                    /\ normalize(normalize(p.items[k].item_name)) =
                            normalize(p.items[k].item_name)
                    /\ \A i \in DOMAIN db :
                            (/\ db[i].status = "active"
                             /\ normalize(db[i].item_name) = normalize(p.items[k].item_name))
                            => MatchedAt(db, p.items[k], IngestThreshold) # None
            /\ \A j \in DOMAIN scan'.items_to_insert :
                    \E k \in DOMAIN p.items :
                        scan'.items_to_insert[j].item_name = p.items[k].item_name
      ]_vars

\* C31: a user who has no session gets one only from a generate request that
\* succeeds: a revise request that read the session before confirm removed it does
\* not bring it back.
C31_RemovedStaysRemoved ==
    [][\A u \in Users :
        (u \notin DOMAIN sessions /\ u \in DOMAIN sessions') =>
            \E t \in Threads : /\ req[t].pc \in {"generate", "scale"}
                               /\ req[t].user = u
                               /\ req'[t].pc = "idle"
      ]_vars

\* C32: a revise request that ends leaves the user's stored session the one it is: when
\* a newer generate request stored its session after the revise request read the
\* older one, the stored session keeps the chat and the snapshot of the newer one.
C32_NewerSessionKept ==
    [][\A t \in Threads :
        LET r == req[t]
        IN  (r.pc = "revise" /\ req'[t].pc = "idle" /\ r.user \in DOMAIN sessions) =>
                /\ r.user \in DOMAIN sessions'
                /\ sessions'[r.user] = sessions[r.user]
                /\ heap'[sessions'[r.user]].chat = heap[sessions[r.user]].chat
                /\ heap'[sessions'[r.user]].active_items =
                        heap[sessions[r.user]].active_items
      ]_vars

RECURSIVE DeductedOf(_, _, _)
\* the quantity the first n entries of a deducted list took from the row named name
DeductedOf(deducted, name, n) ==
    IF n = 0 THEN 0
    ELSE DeductedOf(deducted, name, n - 1) +
         (IF deducted[n].item_name = name THEN deducted[n].quantity_deducted ELSE 0)

\* C33: when the loop of a confirm request has deducted every used entry, each row it
\* deducted from holds its snapshot quantity minus the sum of the clamped quantities
\* of the entries resolved to it, rounded to 3 decimals, or is consumed with quantity
\* 0 when that is not positive.
C33_DeductionsAddUp ==
    \A t \in Threads :
        LET r == req[t]
        IN  (/\ r.pc = "loop"
             /\ r.idx > Len(r.used_items)
             /\ Len(r.deducted) = Len(r.used_items)) =>
                \A i \in DOMAIN r.deducted :
                    LET row == r.fridge_by_name[r.deducted[i].item_name]
                        left == Round3(row.quantity -
                                       DeductedOf(r.deducted, row.item_name, Len(r.deducted)))
                    IN  IF left <= 0
                        THEN db[row.id].status = "consumed" /\ db[row.id].quantity = 0
                        ELSE db[row.id].status = "active" /\ db[row.id].quantity = left

\* C34: an ingestion run whose batch insert fails has marked no row consumed, one
\* whose retirement patch fails has inserted no row, and a run that marks a row
\* consumed stores the rows it was to insert.
C34_AllOrNothing ==
    [][Ingested =>
        LET Retired == {i \in DOMAIN db : db[i].status = "active" /\ db'[i].status = "consumed"}
            Stored == SubSeq(db', Len(db) + 1, Len(db'))
        IN  /\ (scan'.fail = "insert" /\ scan'.items_to_insert # <<>>) => Retired = {}
            /\ (scan'.fail = "patch" /\ scan'.old_items_to_mark_consumed # <<>>) =>
                    Stored = <<>>
            /\ Retired # {} => Stored = scan'.items_to_insert
      ]_vars

IsFresh(rows, p, k) ==
    LET NoneOrLater(m) == m = None \/ rows[m[1].id].purchase_date > p.receipt_date
    IN  NoneOrLater(Matched(rows, p.items[k]))

\* C36: a candidate with no match among the active rows, or whose matched row was
\* bought after the receipt's date, gives exactly one row to insert, an active row
\* with its name, quantity and the receipt's date, and retires nothing: the matched
\* row is not in the retirement list and stays as it is, and a receipt of such
\* candidates only inserts one row each and retires none.
C36_FreshIsInserted ==
    [][Ingested =>
        LET p == scan'.parsed_data
            n == Len(p.items)
            new == scan'.items_to_insert
        IN  /\ \A k \in 1..n :
                    IsFresh(db, p, k) =>
                        LET m == Matched(db, p.items[k])
                            at == KeptUpTo(db, p, k)
                        IN  /\ at \in DOMAIN new
                            /\ at = 1 + (IF k = 1 THEN 0 ELSE KeptUpTo(db, p, k - 1))
                            /\ new[at].item_name = p.items[k].item_name
                            /\ new[at].quantity = p.items[k].quantity
                            /\ new[at].purchase_date = p.receipt_date
                            /\ new[at].status = "active"
                            /\ m # None =>
                                    /\ m[1].id \notin Range(scan'.old_items_to_mark_consumed)
                                    /\ db'[m[1].id] = db[m[1].id]
                            /\ scan'.fail = "none" => db'[Len(db) + at] = new[at]
            /\ (\A k \in 1..n : IsFresh(db, p, k)) =>
                    /\ Len(new) = n
                    /\ scan'.old_items_to_mark_consumed = <<>>
                    /\ scan'.skipped_duplicates = 0
                    /\ \A i \in DOMAIN db : db'[i] = db[i]
      ]_vars

\* C36, reached: the receipt of day 1 was ingested next to the active row of the
\* similar name bought on day 2: both its candidates were inserted, nothing retired.
C36_Reached ==
    /\ scan.parsed_data = FirstReceipt
    /\ scan.fail = "none"
    /\ Len(scan.items_to_insert) = 2
    /\ scan.old_items_to_mark_consumed = <<>>
    /\ \E i \in DOMAIN db :
            /\ db[i].status = "active"
            /\ db[i].item_name = Tapuchim
            /\ db[i].purchase_date > FirstReceipt.receipt_date
    /\ db[Len(db)] = scan.items_to_insert[2]

\* C37: the lists of the confirm response follow the writes. A used entry whose
\* patch changed a row is appended to deducted_items, and an appended entry names a
\* row that holds the quantity it reports; a name is appended to
\* shopping_list_additions exactly when a shopping-list entry is created; and a row
\* patched to consumed is appended to deducted_items whether or not the
\* shopping-list insert that follows the patch succeeds.
C37_ResponseMirrorsWrites ==
    [][\A t \in Threads :
        LET r == req[t]
            n == req'[t]
        IN  /\ (r.pc = "patch" /\ n.pc = "loop") =>
                    /\ db'[r.db_item.id] # db[r.db_item.id] =>
                            /\ Len(n.deducted) = Len(r.deducted) + 1
                            /\ n.deducted[Len(n.deducted)].item_name = r.db_item.item_name
                    /\ n.deducted # r.deducted =>
                            /\ db'[r.db_item.id].quantity =
                                    n.deducted[Len(n.deducted)].quantity_after
                    /\ n.shopping = r.shopping
            /\ (r.pc = "shop" /\ n.pc = "loop") =>
                    /\ db[r.db_item.id].status = "consumed"
                    /\ n.shopping # r.shopping <=> shoppingList' # shoppingList
                    /\ n.shopping # r.shopping =>
                            n.shopping = Append(r.shopping, r.db_item.item_name)
                    /\ Len(n.deducted) = Len(r.deducted) + 1
                    /\ n.deducted[Len(n.deducted)].item_name = r.db_item.item_name
                    /\ n.deducted[Len(n.deducted)].fully_consumed
      ]_vars

\* C38: a request answered 500 or 422 while a user has a session whose recipe has no
\* used items, or while the store credentials are missing, writes no row and no
\* shopping-list entry and leaves every session stored as it is, with its recipe,
\* its chat and its snapshot.
C38_RejectedConfirmKeepsSession ==
    [][\A u \in DOMAIN sessions :
        (/\ response' # response
         /\ response' \in {422, 500}
         /\ \A t \in Threads : req[t].pc = "idle"
         /\ ~creds \/ heap[sessions[u]].recipe.used_fridge_items = <<>>) =>
            /\ db' = db
            /\ shoppingList' = shoppingList
            /\ u \in DOMAIN sessions'
            /\ sessions'[u] = sessions[u]
            /\ heap'[sessions'[u]] = heap[sessions[u]]
            /\ \A t \in Threads : req'[t].pc = "idle"
      ]_vars

\* C38, reached: the confirm request of a user whose recipe has no used items was
\* answered 422, the store credentials being set, and the user has the session still
C38_Reached ==
    /\ response = 422
    /\ creds
    /\ \E u \in DOMAIN sessions : heap[sessions[u]].recipe.used_fridge_items = <<>>

\* C39: a run of the command-line chef ends, whatever is typed and whatever the
\* calls on the chat give. While it goes on no further chat is opened and no further
\* generation prompt sent; its revision counter is the number of revision prompts
\* sent on its chat and never exceeds MAX_REVISIONS; the scaling prompt is sent from
\* the prompt of the loop only, and after it the run only deducts or returns; the
\* store is written only by the deduction loop, which is entered once, after the
\* scaling prompt of the confirm branch, and goes through the used items once.
C39_CliTerminates ==
    /\ [](cli.pc \in {"ask", "revising"} =>
            /\ cli.revisions <= MAX_REVISIONS
            /\ chats[cli.chat].revisions =
                    IF cli.pc = "ask" THEN cli.revisions ELSE cli.revisions - 1)
    /\ [][/\ cli.pc # "off" => opened' = opened
          /\ cli'.pc = "revising" =>
                /\ cli.pc = "ask"
                /\ cli'.revisions = cli.revisions + 1
          /\ (cli.pc = "revising" /\ cli'.pc = "ask") =>
                /\ cli'.revisions = cli.revisions
                /\ chats'[cli.chat].revisions = chats[cli.chat].revisions + 1
          /\ cli'.pc = "scaling" => cli.pc = "ask" /\ chats' = chats
          /\ cli.pc = "scaling" => cli'.pc \in {"consume", "off"}
          /\ cli'.pc = "consume" =>
                \/ cli.pc = "scaling" /\ cli'.idx = 1
                \/ cli.pc = "consume" /\ cli'.idx = cli.idx + 1
          /\ cli.pc = "consume" => cli'.pc \in {"consume", "off"}
          /\ (db' # db \/ shoppingList' # shoppingList) => cli.pc = "consume"
         ]_vars
    /\ (cli.pc # "off") ~> (cli.pc = "off")

\* C39, reached: a run that was sent MAX_REVISIONS revision prompts is in its
\* deduction loop
C39_Reached ==
    /\ cli.pc = "consume"
    /\ chats[cli.chat].revisions = MAX_REVISIONS

====
